---- MODULE Spec2Model ----
(***************************************************************************)
(* Block verification of the node (verification/src/chain_verifier.rs):   *)
(* ChainVerifier::verify with its helpers verify_transaction and          *)
(* ordered_verify, run against a read-only store.                         *)
(*                                                                         *)
(* Hashes are strings; the transaction hash is carried in the record.     *)
(* Scripts are abstracted to what the verifier reads from them: the       *)
(* number of signature operations (utils::transaction_sigops), the length *)
(* of the script_sig and the outcome of script::verify_script.            *)
(***************************************************************************)
EXTENDS Integers, Sequences, FiniteSets, TLC

VARIABLES store, skip_pow, skip_sig, now, block, result, pc, verify_state,
          checks, cuts, partials, accepted, apc,
          bloom, filter_flags, before, last, added, updated, op_count,
          node_peer_counter, client_peers, executor_peers, synchronizing,
          executor_tasks, server_tasks, parked, sessions, calls, node_last,
          node_ops,
          conn_peer_counter, channels, conn_calls, stored, handled, incoming,
          conn_last, conn_ops, removed, conn_returned, snapshot,
          protocols, session_state, session_pc, session_call, received,
          outcomes, session_ret, session_ops,
          merkle_input, merkle_output, indexed_block, indexed_output,
          merkle_frames, merkle_pc,
          mh_header, mh_stream, mh_data, mh_expected, mh_result,
          mutex_owner, lock_calls

\* the verifier (chain_verifier.rs) with its store and the block in hand
verifier_vars == <<store, skip_pow, skip_sig, now, block, result, pc, verify_state>>

\* one run of ChainAcceptor::check_transactions (accept_chain.rs)
acceptor_vars == <<checks, cuts, partials, accepted, apc>>

\* the relay filter of one connection (sync/src/connection_filter.rs)
filter_vars == <<bloom, filter_flags, before, last, added, updated, op_count>>

\* the synchronization node (sync/src/local_node.rs) with its executor, its
\* server, its client and the sessions of its peers
node_vars == <<node_peer_counter, client_peers, executor_peers, synchronizing,
               executor_tasks, server_tasks, parked, sessions, calls, node_last,
               node_ops>>

\* the registry of the connections (p2p/src/net/connections.rs) and the
\* loop over the incoming messages (p2p/src/p2p.rs)
conn_vars == <<conn_peer_counter, channels, conn_calls, stored, handled, incoming,
               conn_last, conn_ops, removed, conn_returned, snapshot>>

\* one session of a peer with its protocol handlers (p2p/src/session.rs)
session_vars == <<protocols, session_state, session_pc, session_call, received,
                  outcomes, session_ret, session_ops>>

\* the parts added to the verifier, the acceptor, the filter, the node and
\* the registry
\* chain::merkle_root and IndexedBlock::merkle_root: what they are called
\* with and what they return
\* with; and the calls of merkle_root that have not returned, each with the
\* row it was called on
merkle_vars == <<merkle_input, merkle_output, indexed_block, indexed_output,
                 merkle_frames, merkle_pc>>

\* the header of a message (message/src/message/message_header.rs): the header
\* in hand and its serialization, the data and the magic handed to
\* deserialize and what it returns
header_vars == <<mh_header, mh_stream, mh_data, mh_expected, mh_result>>

\* the two mutexes of LocalNode (sync/src/local_node.rs), client and
\* executor: the thread that holds each, and the methods under way with the
\* acquisitions and releases they have still to make
lock_vars == <<mutex_owner, lock_calls>>

more_vars == <<session_vars, merkle_vars, header_vars, lock_vars>>

\* what the verifier, the acceptor and the filter leave alone besides each other
extra_vars == <<node_vars, conn_vars, more_vars>>

vars == <<verifier_vars, acceptor_vars, filter_vars, extra_vars>>

----------------------------------------------------------------------------
(* Program constants *)

BLOCK_MAX_FUTURE == 7200

COINBASE_MATURITY == 100

MAX_BLOCK_SIGOPS == 20000

\* previous_output of a coinbase input: zero hash, index 0xFFFFFFFF.
\* 0xFFFFFFFF is beyond the integers of the checker; -1 stands for it and
\* IndexOutOfRange treats it as larger than every length.
ZeroHash == "0"

CoinbaseIndex == -1

----------------------------------------------------------------------------
(* Bounds of the model *)

\* largest number of non-coinbase transactions in a candidate block
MaxTxs == 2

\* largest number of inputs of a candidate transaction
MaxInputs == 2

\* height of the best block of the store
TipHeight == 100

\* current time of the node, seconds
Clock == 1000000

\* largest number of transactions of a block given to the acceptor
MaxChecks == 4

\* largest number of operations on the filter of a connection
MaxOps == 4

\* largest number of sync sessions the node creates
MaxPeers == 2

\* largest number of calls of the methods of the node
MaxNodeOps == 4

\* the threads that call the node
NodeThreads == {1, 2}

----------------------------------------------------------------------------
(* The parts at rest: each specification below runs one part of the       *)
(* program and leaves the others as they are here.                        *)

IdleCall == [pc |-> "idle", peer |-> 0]

NoNodeCall == [op |-> "none", peer |-> 0, id |-> 0, message |-> <<>>, served |-> <<>>]

\* LocalNode::new with nothing connected
NodeIdle ==
    /\ node_peer_counter = 0
    /\ client_peers = {}
    /\ executor_peers = {}
    /\ synchronizing = FALSE
    /\ executor_tasks = <<>>
    /\ server_tasks = <<>>
    /\ parked = <<>>
    /\ sessions = [p \in 1..MaxPeers |-> "none"]
    /\ calls = [t \in NodeThreads |-> IdleCall]
    /\ node_last = NoNodeCall
    /\ node_ops = 0

\* largest number of channels stored
MaxChannels == 3

\* largest number of calls on the registry
MaxConnOps == 4

\* the threads that call the registry
ConnThreads == {1, 2}

NoConnCall == [op |-> "none", id |-> 0, outcome |-> ""]

\* Connections::new with the loop over the messages started
ConnIdle ==
    /\ conn_peer_counter = 0
    /\ channels = <<>>
    /\ conn_calls = [t \in ConnThreads |-> [pc |-> "idle", id |-> 0]]
    /\ stored = <<>>
    /\ handled = <<>>
    /\ incoming = "running"
    /\ conn_last = NoConnCall
    /\ conn_ops = 0
    /\ removed = <<>>
    /\ conn_returned = <<>>
    /\ snapshot = <<>>

\* largest number of calls on the session
MaxSessionOps == 3

NoSessionCall == [op |-> "none", command |-> "", payload |-> <<>>]

\* no session made yet
SessionIdle ==
    /\ protocols = <<>>
    /\ session_state = "none"
    /\ session_pc = "idle"
    /\ session_call = NoSessionCall
    /\ received = <<>>
    /\ outcomes = <<>>
    /\ session_ret = "none"
    /\ session_ops = 0

\* largest number of hashes handed to merkle_root
MaxLeaves == 4

\* largest number of transactions of an indexed block
MaxBlockTxs == 2

\* the calls of merkle_root the stack has room for
MaxFrames == 4

\* IndexedBlock::new(header, transactions)
IndexedBlock(header, transactions) == [header |-> header, transactions |-> transactions]

\* no hash: a call that has not returned
NoHash == <<>>

\* nothing handed to merkle_root yet
MerkleIdle ==
    /\ merkle_input = <<>>
    /\ merkle_output = NoHash
    /\ indexed_block = IndexedBlock("none", <<>>)
    /\ indexed_output = NoHash
    /\ merkle_frames = <<>>
    /\ merkle_pc = "idle"

\* MessageHeader { magic, command, len, checksum }: command and checksum are
\* byte strings, len is a u32
MessageHeader(magic, command, len, checksum) ==
    [magic |-> magic, command |-> command, len |-> len, checksum |-> checksum]

\* Result<MessageHeader, Error>
HeaderOk(header) == [tag |-> "Ok", header |-> header, error |-> ""]

HeaderErr(error) ==
    [tag |-> "Err", header |-> MessageHeader("", <<>>, <<0, 0>>, <<>>), error |-> error]

NoHeaderResult == [tag |-> "None", header |-> MessageHeader("", <<>>, <<0, 0>>, <<>>), error |-> ""]

\* no header serialized or deserialized yet
HeaderIdle ==
    /\ mh_header = MessageHeader("", <<>>, <<0, 0>>, <<>>)
    /\ mh_stream = <<>>
    /\ mh_data = <<>>
    /\ mh_expected = ""
    /\ mh_result = NoHeaderResult

\* a method of the node under way on a thread
LockCall(method, steps) == [method |-> method, steps |-> steps]

NoLockCall == LockCall("none", <<>>)

\* no thread; the threads are numbered from 1
NoThread == 0

\* LocalNode::new: both mutexes free
LockIdle ==
    /\ mutex_owner = [m \in {"client", "executor"} |-> NoThread]
    /\ lock_calls = [t \in NodeThreads |-> NoLockCall]

SessionRest == MerkleIdle /\ HeaderIdle /\ LockIdle

MoreIdle == SessionIdle /\ SessionRest

ExtraIdle == NodeIdle /\ ConnIdle /\ MoreIdle

----------------------------------------------------------------------------
(* Amounts: u64 satoshi values as three limbs <<a, b, c>> of base 10^9,   *)
(* value a * 10^18 + b * 10^9 + c.                                        *)

Base == 10^9

Sat(n) == <<0, 0, n>>

Zero == Sat(0)

\* 2^64 = 18 446744073 709551616
TwoTo64 == <<18, 446744073, 709551616>>

AmtLess(x, y) ==
    \/ x[1] < y[1]
    \/ x[1] = y[1] /\ x[2] < y[2]
    \/ x[1] = y[1] /\ x[2] = y[2] /\ x[3] < y[3]

AmtPlus(x, y) ==
    LET c == x[3] + y[3]
        b == x[2] + y[2] + (c \div Base)
    IN  <<x[1] + y[1] + (b \div Base), b % Base, c % Base>>

\* x - y for x >= y
AmtMinus(x, y) ==
    LET c == x[3] - y[3]
        bc == IF c < 0 THEN 1 ELSE 0
        b == x[2] - y[2] - bc
        bb == IF b < 0 THEN 1 ELSE 0
    IN  <<x[1] - y[1] - bb, b + bb * Base, c + bc * Base>>

\* u64 addition, wrapping at 2^64
U64Add(x, y) ==
    LET r == AmtPlus(x, y)
    IN  IF AmtLess(r, TwoTo64) THEN r ELSE AmtMinus(r, TwoTo64)

\* u64 subtraction, wrapping at 2^64
U64Sub(x, y) ==
    IF AmtLess(x, y) THEN AmtMinus(AmtPlus(x, TwoTo64), y) ELSE AmtMinus(x, y)

AmtHalf(x) ==
    <<x[1] \div 2,
      (x[2] + (x[1] % 2) * Base) \div 2,
      (x[3] + (x[2] % 2) * Base) \div 2>>

RECURSIVE SumAmounts(_)
SumAmounts(s) == IF s = <<>> THEN Zero ELSE U64Add(Head(s), SumAmounts(Tail(s)))

----------------------------------------------------------------------------
(* Data model *)

Input(h, i) == [prev_hash |-> h, prev_index |-> i, script_len |-> 0, script_ok |-> TRUE]

CoinbaseInput(len) ==
    [prev_hash |-> ZeroHash, prev_index |-> CoinbaseIndex, script_len |-> len, script_ok |-> TRUE]

Tx(h, ins, outs, ops) == [hash |-> h, inputs |-> ins, outputs |-> outs, sigops |-> ops]

\* Transaction::is_coinbase
is_coinbase(tx) ==
    /\ Len(tx.inputs) = 1
    /\ tx.inputs[1].prev_hash = ZeroHash
    /\ tx.inputs[1].prev_index = CoinbaseIndex

\* Transaction::total_spends
total_spends(tx) == SumAmounts(tx.outputs)

\* outputs.len() <= index as usize
IndexOutOfRange(len, index) == index = CoinbaseIndex \/ len <= index

----------------------------------------------------------------------------
(* The store (db::Store), read by the verifier *)

\* Known blocks with their heights, the best block, and the transactions
\* with their meta (height, coinbase flag, spent bits).
InitialStore ==
    [ best_block |-> [hash |-> "b_tip", number |-> TipHeight],
      blocks |-> [ b_tip |-> TipHeight,
                   b_s1  |-> TipHeight - 1,
                   b_s2  |-> TipHeight - 2,
                   b_low |-> 50 ],
      txs |-> [ s1 |-> [ tx |-> Tx("s1", <<>>, <<Sat(3), Sat(2)>>, 0),
                         meta |-> [height |-> 0, coinbase |-> FALSE,
                                   spent |-> <<FALSE, TRUE>>] ],
                sc |-> [ tx |-> Tx("sc", <<CoinbaseInput(2)>>, <<Sat(5)>>, 0),
                         meta |-> [height |-> 1, coinbase |-> TRUE,
                                   spent |-> <<FALSE>>] ] ] ]

\* Store::transaction: Option as a sequence of length 0 or 1
store_transaction(s, h) ==
    IF h \in DOMAIN s.txs THEN <<s.txs[h].tx>> ELSE <<>>

\* Store::transaction_meta
store_transaction_meta(s, h) ==
    IF h \in DOMAIN s.txs THEN <<s.txs[h].meta>> ELSE <<>>

\* Store::accepted_location: Main(n) | Side(n) | None
accepted_location(s, header) ==
    IF header.previous_header_hash = s.best_block.hash
    THEN [kind |-> "Main", number |-> s.best_block.number + 1]
    ELSE IF header.previous_header_hash \in DOMAIN s.blocks
    THEN [kind |-> "Side", number |-> s.blocks[header.previous_header_hash] + 1]
    ELSE [kind |-> "None", number |-> 0]

----------------------------------------------------------------------------
(* utils *)

\* utils::age: seconds between the protocol time and the current time (i64)
age(t, protocol_time) == t - protocol_time

\* utils::check_nbits, abstracted to its outcome carried by the header
check_nbits(header) == header.pow_ok

RECURSIVE Halved(_, _)
Halved(x, k) == IF k = 0 \/ x = Zero THEN x ELSE Halved(AmtHalf(x), k - 1)

\* utils::block_reward_satoshi: 50 * 10^8, halved every 210000 blocks
block_reward_satoshi(height) == Halved(<<0, 5, 0>>, height \div 210000)

\* utils::transaction_sigops: Ok(n) for n >= 0, Err for a malformed script
transaction_sigops(tx) == tx.sigops

----------------------------------------------------------------------------
(* chain::merkle_root; dhash256(a || b) is the bracketed pair of a and b *)

dhash256_concat(a, b) == <<"(">> \o a \o b \o <<")">>

RECURSIVE merkle_row_pairs_only(_, _)
\* mutant: the last element of a row of odd length is left out
merkle_row_pairs_only(hashes, i) ==
    IF i + 1 <= Len(hashes)
    THEN <<dhash256_concat(hashes[i], hashes[i + 1])>> \o merkle_row_pairs_only(hashes, i + 2)
    ELSE <<>>

RECURSIVE merkle_row(_, _)
merkle_row(hashes, i) ==
    IF i + 1 <= Len(hashes)
    THEN <<dhash256_concat(hashes[i], hashes[i + 1])>> \o merkle_row(hashes, i + 2)
    ELSE IF i = Len(hashes)
    THEN <<dhash256_concat(hashes[i], hashes[i])>>
    ELSE <<>>

RECURSIVE merkle_root(_)
merkle_root(hashes) ==
    IF Len(hashes) = 1 THEN hashes[1] ELSE merkle_root(merkle_row(hashes, 1))

\* Block::merkle_root over the transaction hashes, in block order
block_merkle_root(blk) ==
    merkle_root([i \in 1..Len(blk.transactions) |-> <<blk.transactions[i].hash>>])

----------------------------------------------------------------------------
(* Results: VerificationResult = Result<Chain, Error> as one record shape *)

Res(tag, kind) ==
    [tag |-> tag, kind |-> kind, index |-> 0, txerr |-> "", hash |-> "", n |-> 0,
     expected_max |-> Zero, actual |-> Zero]

NoResult == Res("None", "")

Ok(chain) == Res("Ok", chain)

Err(kind) == Res("Err", kind)

ErrN(kind, n) == [Err(kind) EXCEPT !.n = n]

ErrCoinbaseOverspend(expected_max, actual) ==
    [Err("CoinbaseOverspend") EXCEPT !.expected_max = expected_max, !.actual = actual]

\* TransactionError, and Ok(()) of the per-transaction checks
TxErr(txerr, hash, n) == [txerr |-> txerr, hash |-> hash, n |-> n]

TxOk == TxErr("", "", 0)

\* Error::Transaction(index, e)
ErrTransaction(index, e) ==
    [Err("Transaction") EXCEPT !.index = index, !.txerr = e.txerr, !.hash = e.hash, !.n = e.n]

----------------------------------------------------------------------------
(* ChainVerifier::verify_transaction *)

\* mutant: the block is not searched for the parent transaction
block_transactions_not_searched(blk, h) == <<>>

\* the transactions of the block with the given hash, in block order
block_transactions_with_hash(blk, h) ==
    SelectSeq(blk.transactions, LAMBDA t : t.hash = h)

\* mutant: the error carries the referenced output index
input_error_with_output_index(input_index, input) == TxErr("Input", "", input.prev_index)

\* Err(TransactionError::Input(input_index))
input_error(input_index, input) == TxErr("Input", "", input_index)

\* Inputs from position k on (k = input_index + 1)
RECURSIVE verify_transaction_from(_, _, _, _, _)
verify_transaction_from(s, skipsig, blk, transaction, k) ==
    IF k > Len(transaction.inputs) THEN TxOk
    ELSE
    LET input == transaction.inputs[k]
        store_parent_transaction == store_transaction(s, input.prev_hash)
        in_block == block_transactions_with_hash(blk, input.prev_hash)
        parent_transaction ==
            IF store_parent_transaction # <<>> THEN store_parent_transaction
            ELSE IF in_block # <<>> THEN <<in_block[1]>>
            ELSE <<>>
    IN  IF parent_transaction = <<>>
        THEN TxErr("Inconclusive", input.prev_hash, 0)
        ELSE IF IndexOutOfRange(Len(parent_transaction[1].outputs), input.prev_index)
        THEN input_error(k - 1, input)
        ELSE IF skipsig
        THEN verify_transaction_from(s, skipsig, blk, transaction, k + 1)
        ELSE IF ~input.script_ok
        THEN TxErr("Signature", "", k - 1)
        ELSE verify_transaction_from(s, skipsig, blk, transaction, k + 1)

verify_transaction(s, skipsig, blk, transaction) ==
    verify_transaction_from(s, skipsig, blk, transaction, 1)

----------------------------------------------------------------------------
(* ChainVerifier::ordered_verify *)

\* mutant: the boundary height h + 100 counted as immature
coinbase_immature_offbyone(at_height, previous_meta) ==
    /\ previous_meta.coinbase
    /\ \/ at_height < COINBASE_MATURITY
       \/ at_height - COINBASE_MATURITY <= previous_meta.height

\* the coinbase maturity condition on the meta of the referenced transaction
coinbase_immature(at_height, previous_meta) ==
    /\ previous_meta.coinbase
    /\ \/ at_height < COINBASE_MATURITY
       \/ at_height - COINBASE_MATURITY < previous_meta.height

\* store.transaction(hash).or(first non-coinbase transaction of the block
\* with that hash): Option as a sequence of length 0 or 1
reference_transaction(s, blk, h) ==
    LET in_block == SelectSeq(blk.transactions,
                              LAMBDA t : ~is_coinbase(t) /\ t.hash = h)
    IN  IF store_transaction(s, h) # <<>> THEN store_transaction(s, h)
        ELSE IF in_block # <<>> THEN <<in_block[1]>>
        ELSE <<>>

\* total_claimed < total_spends
\* mutant: equal sums count as an overspend
is_overspend_orequal(claimed, spends) == ~AmtLess(spends, claimed)

is_overspend(claimed, spends) == AmtLess(claimed, spends)

\* The inputs of tx from position k on; pos is the position of tx in the
\* block (tx_index + 1).  Gives the error, or the claimed total.
RECURSIVE claim_inputs(_, _, _, _, _, _, _)
claim_inputs(s, blk, at_height, tx, pos, k, total_claimed) ==
    IF k > Len(tx.inputs) THEN [err |-> <<>>, total_claimed |-> total_claimed]
    ELSE
    LET input == tx.inputs[k]
        previous_meta == store_transaction_meta(s, input.prev_hash)
        reference_tx == reference_transaction(s, blk, input.prev_hash)
    IN  IF previous_meta # <<>> /\ coinbase_immature(at_height, previous_meta[1])
        THEN [err |-> <<ErrTransaction(pos, TxErr("Maturity", "", 0))>>,
              total_claimed |-> total_claimed]
        ELSE IF reference_tx = <<>>
        THEN [err |-> <<ErrTransaction(pos, TxErr("UnknownReference", input.prev_hash, 0))>>,
              total_claimed |-> total_claimed]
        ELSE IF IndexOutOfRange(Len(reference_tx[1].outputs), input.prev_index)
        THEN [err |-> <<ErrTransaction(pos, TxErr("Input", "", input.prev_index))>>,
              total_claimed |-> total_claimed]
        ELSE claim_inputs(s, blk, at_height, tx, pos, k + 1,
                          U64Add(total_claimed,
                                 reference_tx[1].outputs[input.prev_index + 1]))

\* The transactions of the block from position pos (0-based) on.  Gives the
\* error, or the total of the unspent amounts (fees).
RECURSIVE ordered_transactions(_, _, _, _, _)
ordered_transactions(s, blk, at_height, pos, total_unspent) ==
    IF pos + 1 > Len(blk.transactions) THEN [err |-> <<>>, total_unspent |-> total_unspent]
    ELSE
    LET tx == blk.transactions[pos + 1]
        claimed == claim_inputs(s, blk, at_height, tx, pos, 1, Zero)
        spends == total_spends(tx)
    IN  IF claimed.err # <<>>
        THEN [err |-> claimed.err, total_unspent |-> total_unspent]
        ELSE IF is_overspend(claimed.total_claimed, spends)
        THEN [err |-> <<ErrTransaction(pos, TxErr("Overspend", "", 0))>>,
              total_unspent |-> total_unspent]
        ELSE ordered_transactions(s, blk, at_height, pos + 1,
                 U64Add(total_unspent, U64Sub(claimed.total_claimed, spends)))

\* mutant: the fees are left out of what the coinbase may spend
ordered_verify_without_fees(s, blk, at_height) ==
    LET coinbase_spends == total_spends(blk.transactions[1])
        txs == ordered_transactions(s, blk, at_height, 1, Zero)
        expected_max == block_reward_satoshi(at_height)
    IN  IF txs.err # <<>> THEN txs.err
        ELSE IF AmtLess(expected_max, coinbase_spends)
        THEN <<ErrCoinbaseOverspend(expected_max, coinbase_spends)>>
        ELSE <<>>

\* Result<(), Error>: <<>> for Ok(()), <<e>> for Err(e)
ordered_verify(s, blk, at_height) ==
    LET coinbase_spends == total_spends(blk.transactions[1])
        txs == ordered_transactions(s, blk, at_height, 1, Zero)
        expected_max == U64Add(block_reward_satoshi(at_height), txs.total_unspent)
    IN  IF txs.err # <<>> THEN txs.err
        ELSE IF AmtLess(expected_max, coinbase_spends)
        THEN <<ErrCoinbaseOverspend(expected_max, coinbase_spends)>>
        ELSE <<>>

----------------------------------------------------------------------------
(* impl Verify for ChainVerifier *)

\* block_sigops > MAX_BLOCK_SIGOPS
sigops_exceeded(block_sigops) == block_sigops > MAX_BLOCK_SIGOPS

\* The non-coinbase transactions from position pos (0-based) on, with the
\* signature operations counted so far.  <<>> when all pass.
RECURSIVE verify_transactions(_, _, _, _, _)
verify_transactions(s, skipsig, blk, pos, block_sigops) ==
    IF pos + 1 > Len(blk.transactions) THEN <<>>
    ELSE
    LET transaction == blk.transactions[pos + 1]
        sigops == transaction_sigops(transaction)
        checked == verify_transaction(s, skipsig, blk, transaction)
    IN  IF sigops < 0
        THEN <<ErrTransaction(pos, TxErr("SignatureMallformed", "", 0))>>
        ELSE IF sigops_exceeded(block_sigops + sigops)
        THEN <<Err("MaximumSigops")>>
        ELSE IF checked # TxOk
        THEN <<ErrTransaction(pos, checked)>>
        ELSE verify_transactions(s, skipsig, blk, pos + 1, block_sigops + sigops)

\* mutant: the stateful pass is run for an orphan too, at height 0
verify_location_checks_orphans(s, blk) ==
    LET location == accepted_location(s, blk.header)
        chain == IF location.kind = "None" THEN "Orphan" ELSE location.kind
    IN  IF ordered_verify(s, blk, location.number) # <<>>
        THEN ordered_verify(s, blk, location.number)[1]
        ELSE Ok(chain)

\* match self.store.accepted_location(block.header())
verify_location(s, blk) ==
    LET location == accepted_location(s, blk.header)
    IN  IF location.kind = "None" THEN Ok("Orphan")
        ELSE IF ordered_verify(s, blk, location.number) # <<>>
        THEN ordered_verify(s, blk, location.number)[1]
        ELSE Ok(location.kind)

\* mutant: proof-of-work is never checked
pow_never_fails(skippow, header) == FALSE

\* !self.skip_pow && !utils::check_nbits(&hash, block.header().nbits)
pow_fails(skippow, header) == ~skippow /\ ~check_nbits(header)

\* mutant: a block exactly BLOCK_MAX_FUTURE ahead is rejected too
timestamp_too_far_orequal(t, header) == age(t, header.time) <= -BLOCK_MAX_FUTURE

\* utils::age(block.header().time) < -BLOCK_MAX_FUTURE
timestamp_too_far(t, header) == age(t, header.time) < -BLOCK_MAX_FUTURE

\* mutant: the merkle root of the header is not compared
merkle_root_unchecked(blk) == FALSE

\* block.merkle_root() != block.header().merkle_root_hash
merkle_root_mismatch(blk) == block_merkle_root(blk) # blk.header.merkle_root_hash

\* mutant: the lengths 2 and 100 are rejected too
bad_coinbase_script_len_strict(len) == len <= 2 \/ len >= 100

\* coinbase_script_len < 2 || coinbase_script_len > 100
bad_coinbase_script_len(len) == len < 2 \/ len > 100

\* mutant: the merkle root is compared before the proof-of-work and the
\* timestamp are looked at
verify_merkle_root_first(s, skippow, skipsig, t, blk) ==
    IF blk.transactions = <<>> THEN Err("Empty")
    ELSE IF merkle_root_mismatch(blk) THEN Err("MerkleRoot")
    ELSE IF pow_fails(skippow, blk.header) THEN Err("Pow")
    ELSE IF timestamp_too_far(t, blk.header) THEN Err("Timestamp")
    ELSE IF ~is_coinbase(blk.transactions[1]) THEN Err("Coinbase")
    ELSE IF bad_coinbase_script_len(blk.transactions[1].inputs[1].script_len)
    THEN ErrN("CoinbaseSignatureLength", blk.transactions[1].inputs[1].script_len)
    ELSE IF transaction_sigops(blk.transactions[1]) < 0
    THEN ErrTransaction(1, TxErr("SignatureMallformed", "", 0))
    ELSE
    LET checked == verify_transactions(s, skipsig, blk, 1,
                                       transaction_sigops(blk.transactions[1]))
    IN  IF checked # <<>> THEN checked[1] ELSE verify_location(s, blk)

verify(s, skippow, skipsig, t, blk) ==
    IF blk.transactions = <<>> THEN Err("Empty")
    ELSE IF pow_fails(skippow, blk.header) THEN Err("Pow")
    ELSE IF timestamp_too_far(t, blk.header) THEN Err("Timestamp")
    ELSE IF merkle_root_mismatch(blk) THEN Err("MerkleRoot")
    ELSE IF ~is_coinbase(blk.transactions[1]) THEN Err("Coinbase")
    ELSE IF bad_coinbase_script_len(blk.transactions[1].inputs[1].script_len)
    THEN ErrN("CoinbaseSignatureLength", blk.transactions[1].inputs[1].script_len)
    ELSE IF transaction_sigops(blk.transactions[1]) < 0
    THEN ErrTransaction(1, TxErr("SignatureMallformed", "", 0))
    ELSE
    LET checked == verify_transactions(s, skipsig, blk, 1,
                                       transaction_sigops(blk.transactions[1]))
    IN  IF checked # <<>> THEN checked[1] ELSE verify_location(s, blk)

----------------------------------------------------------------------------
(* Candidate blocks, built as test_data::block_builder builds them *)

Header(prev, time, pow_ok, root) ==
    [previous_header_hash |-> prev, time |-> time, pow_ok |-> pow_ok,
     merkle_root_hash |-> root]

\* BlockBuilder::merkled_header: the root is computed from the transactions
MerkledBlock(prev, time, pow_ok, txs) ==
    LET unmerkled == [header |-> Header(prev, time, pow_ok, <<ZeroHash>>),
                      transactions |-> txs]
    IN  IF txs = <<>> THEN unmerkled
        ELSE [unmerkled EXCEPT !.header.merkle_root_hash = block_merkle_root(unmerkled)]

\* a block with a header that passes the header checks
GoodBlock(prev, txs) == MerkledBlock(prev, Clock, TRUE, txs)

\* hashes of the candidate transactions, by position in the block
TxNames == <<"t1", "t2", "t3", "t4">>

Reward == <<0, 5, 0>>

Coinbase(outs, ops, len) == Tx("cb", <<CoinbaseInput(len)>>, outs, ops)

GoodCoinbase == Coinbase(<<Reward>>, 0, 2)

Parents == {"b_tip", "b_s1", "b_s2", "b_low", "b_unknown"}

MainParents == {"b_tip", "b_s1", "b_unknown"}

OutputChoices == {<<>>, <<Sat(3)>>, <<Sat(2), Sat(2)>>}

\* outpoints into the store (unspent, spent, out of range, coinbase), into
\* the block (its coinbase, its transactions) and into nothing known
StoreOutPoints == {<<"s1", 0>>, <<"s1", 1>>, <<"sc", 0>>}

OutPoints ==
    StoreOutPoints \cup {<<"s1", 2>>, <<"cb", 0>>, <<"un", 0>>}
        \cup {<<TxNames[j], 0>> : j \in 1..MaxTxs}

\* (a) chains: up to MaxTxs transactions of one input each
RECURSIVE ChainTxs(_)
ChainTxs(n) ==
    IF n = 0 THEN {<<>>}
    ELSE {Append(txs, Tx(TxNames[n], <<Input(o[1], o[2])>>, outs, 0)) :
            txs \in ChainTxs(n - 1), o \in OutPoints, outs \in OutputChoices}

\* A transaction hash commits to the outpoints the transaction spends, so
\* no transaction spends, directly or through others, an output of itself.
RefersTo(txs, i) ==
    {j \in 1..Len(txs) : \E k \in 1..Len(txs[i].inputs) :
                             txs[i].inputs[k].prev_hash = txs[j].hash}

RECURSIVE Ancestors(_, _, _)
Ancestors(txs, seen, n) ==
    IF n = 0 THEN seen
    ELSE Ancestors(txs, seen \cup UNION {RefersTo(txs, j) : j \in seen}, n - 1)

HashesRealizable(txs) ==
    \A i \in 1..Len(txs) : i \notin Ancestors(txs, RefersTo(txs, i), Len(txs))

ChainBlocks ==
    {GoodBlock(prev, <<GoodCoinbase>> \o txs) :
        prev \in MainParents,
        txs \in {t \in UNION {ChainTxs(n) : n \in 0..MaxTxs} : HashesRealizable(t)}}

\* (b) one transaction of up to MaxInputs inputs
RECURSIVE InputLists(_)
InputLists(n) ==
    IF n = 0 THEN {<<>>}
    ELSE {Append(ins, Input(o[1], o[2])) :
            ins \in InputLists(n - 1),
            o \in StoreOutPoints \cup {<<"s1", 2>>, <<"cb", 0>>, <<"un", 0>>}}

JoinBlocks ==
    {GoodBlock(prev, <<GoodCoinbase, Tx("t1", ins, outs, 0)>>) :
        prev \in MainParents,
        ins \in UNION {InputLists(n) : n \in 1..MaxInputs},
        outs \in OutputChoices}

\* (c) signature operations around the limit; -1 is a malformed script
SigopChoices ==
    {-1, 0, 1, MAX_BLOCK_SIGOPS \div 2, MAX_BLOCK_SIGOPS, MAX_BLOCK_SIGOPS + 1}

RECURSIVE SigopTxs(_)
SigopTxs(n) ==
    IF n = 0 THEN {<<>>}
    ELSE {Append(txs, Tx(TxNames[n], <<Input(h, 0)>>, <<>>, ops)) :
            txs \in SigopTxs(n - 1), h \in {"s1", "un"}, ops \in SigopChoices}

SigopBlocks ==
    {GoodBlock("b_tip", <<Coinbase(<<Reward>>, ops, 2)>> \o txs) :
        ops \in SigopChoices, txs \in UNION {SigopTxs(n) : n \in 0..MaxTxs}}

\* (d) coinbase outputs around reward + fees, at every height
CoinbaseOutputChoices ==
    {<<>>, <<Reward>>, <<AmtPlus(Reward, Sat(1))>>, <<Reward, Sat(3)>>,
     <<AmtPlus(Reward, Sat(3))>>, <<AmtPlus(Reward, Sat(4))>>}

RewardBlocks ==
    {GoodBlock(prev, <<Coinbase(couts, 0, 2)>> \o txs) :
        prev \in Parents, couts \in CoinbaseOutputChoices,
        txs \in {<<>>} \cup
            {<<Tx("t1", <<Input(h, 0)>>, outs, 0)>> :
                h \in {"s1", "sc"}, outs \in OutputChoices}}

\* (e) headers and block shapes around the stateless checks
TimeChoices == {Clock, Clock + BLOCK_MAX_FUTURE, Clock + BLOCK_MAX_FUTURE + 1}

ScriptLenChoices == {1, 2, 100, 101}

ShapeTxs ==
    {<<>>, <<Tx("t1", <<Input("s1", 0)>>, <<>>, 0)>>}
        \cup {<<Coinbase(<<Reward>>, 0, len)>> : len \in ScriptLenChoices}
        \cup {<<GoodCoinbase,
                Tx("t1", <<[Input("s1", 0) EXCEPT !.script_ok = ok]>>, <<>>, 0)>> :
                ok \in BOOLEAN}

HeaderBlocks ==
    {LET b == MerkledBlock(prev, time, pow_ok, txs)
     IN  IF root_ok THEN b ELSE [b EXCEPT !.header.merkle_root_hash = <<"bad">>] :
        prev \in {"b_tip", "b_unknown"}, time \in TimeChoices,
        pow_ok \in BOOLEAN, root_ok \in BOOLEAN, txs \in ShapeTxs}

\* (f) blocks that fail several checks at once: a header that fails in one
\* or in every way, a coinbase that fails in one or two ways, and one
\* transaction whose scripts, inputs or outputs fail
OrderHeaders ==
    {[pow_ok |-> TRUE, time |-> Clock, root_ok |-> TRUE],
     [pow_ok |-> FALSE, time |-> Clock, root_ok |-> TRUE],
     [pow_ok |-> TRUE, time |-> Clock + BLOCK_MAX_FUTURE + 1, root_ok |-> TRUE],
     [pow_ok |-> TRUE, time |-> Clock, root_ok |-> FALSE],
     [pow_ok |-> FALSE, time |-> Clock + BLOCK_MAX_FUTURE + 1, root_ok |-> FALSE]}

OrderCoinbases ==
    {GoodCoinbase, Coinbase(<<Reward>>, 0, 1), Coinbase(<<Reward>>, -1, 2),
     Coinbase(<<Reward>>, -1, 1), Coinbase(<<AmtPlus(Reward, Sat(4))>>, 0, 2)}

OrderOutPoints == {<<"s1", 0>>, <<"sc", 0>>, <<"cb", 0>>, <<"un", 0>>, <<"s1", 2>>}

OrderInputs ==
    {<<Input(o[1], o[2])>> : o \in OrderOutPoints}
        \cup {<<Input(o[1], o[2]), Input(q[1], q[2])>> :
                o \in OrderOutPoints, q \in OrderOutPoints}

OrderBlocks ==
    {LET b == MerkledBlock(prev, h.time, h.pow_ok, <<cb, Tx("t1", ins, outs, ops)>>)
     IN  IF h.root_ok THEN b ELSE [b EXCEPT !.header.merkle_root_hash = <<"bad">>] :
        prev \in {"b_tip", "b_unknown"}, h \in OrderHeaders, cb \in OrderCoinbases,
        ins \in OrderInputs, outs \in {<<>>, <<Sat(9)>>},
        ops \in {-1, 0, MAX_BLOCK_SIGOPS + 1}}

Blocks ==
    ChainBlocks \cup JoinBlocks \cup SigopBlocks \cup RewardBlocks \cup HeaderBlocks
        \cup OrderBlocks

NoBlock == [header |-> Header("", 0, FALSE, <<>>), transactions |-> <<>>]

----------------------------------------------------------------------------
(* 32-bit unsigned arithmetic, as the u32 of the filter code.  A u32 is    *)
(* the pair <<high 16 bits, low 16 bits>>: the numbers of the checker end  *)
(* at 2^31 - 1.                                                            *)

Half == 65536

U32(hi, lo) == <<hi, lo>>

\* u32 of a small number
U32Of(n) == <<n \div Half, n % Half>>

\* low and high 16 bits of the product of two 16-bit numbers
Mul16(x, y) ==
    LET p0 == x * (y % 256)
        p1 == x * (y \div 256)
        low == p0 + (p1 % 256) * 256
    IN  <<((low \div Half) + (p1 \div 256)) % Half, low % Half>>

\* overflowing_add(..).0
wrapping_add(a, b) ==
    LET lo == a[2] + b[2]
    IN  <<(a[1] + b[1] + (lo \div Half)) % Half, lo % Half>>

\* overflowing_mul(..).0
wrapping_mul(a, b) ==
    LET ll == Mul16(a[2], b[2])
        cross == Mul16(a[1], b[2])[2] + Mul16(a[2], b[1])[2]
    IN  <<(ll[1] + cross) % Half, ll[2]>>

RECURSIVE Xor16(_, _)
Xor16(x, y) ==
    IF x = 0 THEN y
    ELSE IF y = 0 THEN x
    ELSE ((x + y) % 2) + 2 * Xor16(x \div 2, y \div 2)

xor32(a, b) == <<Xor16(a[1], b[1]), Xor16(a[2], b[2])>>

\* x.rotate_left(r), 0 < r < 32
rotl32(a, r) ==
    LET s == IF r >= 16 THEN <<a[2], a[1]>> ELSE a
        n == IF r >= 16 THEN r - 16 ELSE r
        up == 2 ^ n
        down == 2 ^ (16 - n)
    IN  <<((s[1] * up) % Half) + (s[2] \div down), ((s[2] * up) % Half) + (s[1] \div down)>>

\* x >> r, 0 < r <= 16
shr32(a, r) ==
    IF r = 16 THEN <<0, a[1]>>
    ELSE <<a[1] \div (2 ^ r), (a[2] \div (2 ^ r)) + (a[1] % (2 ^ r)) * (2 ^ (16 - r))>>

\* x as usize % n, 0 < n < 2^15
mod32(a, n) == ((a[1] % n) * (Half % n) + a[2]) % n

----------------------------------------------------------------------------
(* murmur3::murmur3_32 (MurmurHash3_x86_32) over a sequence of bytes *)

MurmurC1 == U32(52382, 11601)

MurmurC2 == U32(7047, 13715)

MurmurN == U32(58964, 27492)

MurmurF1 == U32(34283, 51819)

MurmurF2 == U32(49842, 44597)

\* the scrambled block k: k *= c1; k = rotl(k, 15); k *= c2
murmur_scramble(k) == wrapping_mul(rotl32(wrapping_mul(k, MurmurC1), 15), MurmurC2)

\* little-endian u32 of up to four bytes
le32(bytes) ==
    LET b(i) == IF i <= Len(bytes) THEN bytes[i] ELSE 0
    IN  <<b(4) * 256 + b(3), b(2) * 256 + b(1)>>

RECURSIVE murmur_blocks(_, _)
murmur_blocks(h, bytes) ==
    IF Len(bytes) >= 4
    THEN LET mixed == rotl32(xor32(h, murmur_scramble(le32(SubSeq(bytes, 1, 4)))), 13)
             next == wrapping_add(wrapping_mul(mixed, U32Of(5)), MurmurN)
         IN  \* the state after this block is a value before the next block reads it
             IF next \in Nat \X Nat
             THEN murmur_blocks(next, SubSeq(bytes, 5, Len(bytes)))
             ELSE next
    ELSE IF bytes = <<>> THEN h
    ELSE xor32(h, murmur_scramble(le32(bytes)))

murmur_fmix(h) ==
    LET h1 == xor32(h, shr32(h, 16))
        h2 == wrapping_mul(h1, MurmurF1)
        h3 == xor32(h2, shr32(h2, 13))
        h4 == wrapping_mul(h3, MurmurF2)
    IN  xor32(h4, shr32(h4, 16))

murmur3_32(bytes, seed) ==
    murmur_fmix(xor32(murmur_blocks(seed, bytes), U32Of(Len(bytes))))

----------------------------------------------------------------------------
(* The relay filter of a connection (sync/src/connection_filter.rs).       *)
(* Byte strings are sequences of numbers 0..255.  A script is what the     *)
(* filter reads of it: the data of its instructions, in order, and the     *)
(* two script classes asked for on an update.                              *)

\* const SEED_OFFSET: u32 = 0xFBA4C795
SEED_OFFSET == U32(64420, 51093)

\* hashes of the transactions at hand (H256, 32 bytes)
HashOf(byte) == [i \in 1..32 |-> byte]

\* serialize(&OutPoint { hash, index }): the hash, then the index as u32 LE
serialize_outpoint(o) ==
    o.hash \o <<o.index % 256, (o.index \div 256) % 256, 0, 0>>

OutPoint(h, index) == [hash |-> h, index |-> index]

Script(data, p2pk, multisig) ==
    [data |-> data, pay_to_public_key |-> p2pk, multisig |-> multisig]

NoScript == Script(<<>>, FALSE, FALSE)

FilterInput(o, script) == [previous_output |-> o, script_sig |-> script]

FilterTx(h, ins, outs) == [hash |-> h, inputs |-> ins, outputs |-> outs]

\* data elements of the scripts: a public key hash, a public key, a signature
DataX == <<56, 12, 179, 197>>

DataK == <<3, 90, 169>>

DataS == <<48, 69, 2, 32, 91>>

\* Transaction::default()
DefaultTx == FilterTx(HashOf(0), <<>>, <<>>)

\* pays to a key hash and to a public key, spends an output of elsewhere
TxA ==
    FilterTx(HashOf(161),
             <<FilterInput(OutPoint(HashOf(77), 0), Script(<<DataS>>, FALSE, FALSE))>>,
             <<[script_pubkey |-> Script(<<DataX>>, FALSE, FALSE)],
               [script_pubkey |-> Script(<<DataK>>, TRUE, FALSE)]>>)

\* spends output 1 of TxA
TxB ==
    FilterTx(HashOf(178), <<FilterInput(OutPoint(HashOf(161), 1), NoScript)>>, <<>>)

\* spends output 0 of TxA and pays to a multisig script of two data elements
TxC ==
    FilterTx(HashOf(195),
             <<FilterInput(OutPoint(HashOf(161), 0), NoScript)>>,
             <<[script_pubkey |-> Script(<<DataK, DataX>>, FALSE, TRUE)]>>)

FilterTxs == {DefaultTx, TxA, TxB, TxC}

\* the data of filteradd messages
AddData == {HashOf(161), DataX, DataK, DataS, serialize_outpoint(OutPoint(HashOf(77), 0))}

Tweaks == {U32Of(5), U32(65535, 65535)}

HashFunctionCounts == {0, 1, 3}

FilterBytes == {<<>>, <<0>>, <<0, 0, 0, 0>>, <<255>>}

FilterFlags == {"None", "All", "PubKeyOnly"}

\* filterload messages
FilterLoads ==
    [filter : FilterBytes, hash_functions : HashFunctionCounts,
     tweak : Tweaks, flags : FilterFlags]

\* BitVec::from_bytes: the most significant bit of each byte first
from_bytes(bytes) ==
    [i \in 1..(8 * Len(bytes)) |->
        (bytes[((i - 1) \div 8) + 1] \div (2 ^ (7 - ((i - 1) % 8)))) % 2 = 1]

\* ConnectionBloom::new
ConnectionBloom(message) ==
    [filter |-> from_bytes(message.filter),
     hash_functions_num |-> message.hash_functions,
     tweak |-> message.tweak]

\* mutant: the tweak is left out of the seed
murmur_seed_without_tweak(hash_function_idx, tweak) ==
    wrapping_mul(U32Of(hash_function_idx), SEED_OFFSET)

\* hash_function_idx.overflowing_mul(SEED_OFFSET).0.overflowing_add(self.tweak).0
murmur_seed(hash_function_idx, tweak) ==
    wrapping_add(wrapping_mul(U32Of(hash_function_idx), SEED_OFFSET), tweak)

\* every byte string the filter is asked about
HashedData ==
    AddData
        \cup {t.hash : t \in FilterTxs}
        \cup UNION {{serialize_outpoint(OutPoint(t.hash, i - 1)) : i \in 1..Len(t.outputs)} :
                        t \in FilterTxs}
        \cup UNION {{serialize_outpoint(t.inputs[i].previous_output) : i \in 1..Len(t.inputs)} :
                        t \in FilterTxs}
        \cup {DataX, DataK, DataS}

HashIndexes == 0..2

\* murmur3_32 of the byte strings at hand under the seeds at hand
MurmurTable ==
    [d \in HashedData, idx \in HashIndexes, tweak \in Tweaks |->
        murmur3_32(d, murmur_seed(idx, tweak))]

\* murmur3_32(&mut data.as_ref(), murmur_seed) as usize % self.filter.len()
murmur_hash(b, data, hash_function_idx) ==
    mod32(MurmurTable[data, hash_function_idx, b.tweak], Len(b.filter))

\* the remainder by filter.len() = 0 panics; it is taken once per hash function
Panics(b) == Len(b.filter) = 0 /\ b.hash_functions_num > 0

\* ConnectionBloom::contains
contains(b, data) ==
    \A idx \in 0..(b.hash_functions_num - 1) : b.filter[murmur_hash(b, data, idx) + 1]

\* mutant: only the bit of the first hash function is set
insert_first_hash_only(b, data) ==
    [b EXCEPT !.filter =
        [i \in 1..Len(b.filter) |->
            \/ b.filter[i]
            \/ b.hash_functions_num > 0 /\ murmur_hash(b, data, 0) + 1 = i]]

\* mutant: the bits of the data replace the bits that were set
insert_replaces_bits(b, data) ==
    [b EXCEPT !.filter =
        [i \in 1..Len(b.filter) |->
            \E idx \in 0..(b.hash_functions_num - 1) : murmur_hash(b, data, idx) + 1 = i]]

\* ConnectionBloom::insert
insert(b, data) ==
    [b EXCEPT !.filter =
        [i \in 1..Len(b.filter) |->
            \/ b.filter[i]
            \/ \E idx \in 0..(b.hash_functions_num - 1) : murmur_hash(b, data, idx) + 1 = i]]

\* mutant: the filter is updated whatever the flags
is_update_needed_always(flags, script) == TRUE

\* self.filter_flags == All || (self.filter_flags == PubKeyOnly &&
\* (script.is_pay_to_public_key() || script.is_multisig_script()))
is_update_needed(flags, script) ==
    \/ flags = "All"
    \/ flags = "PubKeyOnly" /\ (script.pay_to_public_key \/ script.multisig)

\* The loop over the outputs and the data of their scripts, from data
\* element di of output oi (both 1-based) on; inserted collects the
\* arguments of the calls of bloom.insert.
RECURSIVE match_outputs(_, _, _, _, _, _, _)
match_outputs(b, flags, transaction, oi, di, is_match, inserted) ==
    IF oi > Len(transaction.outputs)
    THEN [bloom |-> b, is_match |-> is_match, inserted |-> inserted]
    ELSE
    LET script == transaction.outputs[oi].script_pubkey
        outpoint == serialize_outpoint(OutPoint(transaction.hash, oi - 1))
    IN  IF di > Len(script.data)
        THEN match_outputs(b, flags, transaction, oi + 1, 1, is_match, inserted)
        ELSE IF ~contains(b, script.data[di])
        THEN match_outputs(b, flags, transaction, oi, di + 1, is_match, inserted)
        ELSE IF is_update_needed(flags, script)
        THEN match_outputs(insert(b, outpoint), flags, transaction, oi, di + 1, TRUE,
                           inserted \cup {outpoint})
        ELSE match_outputs(b, flags, transaction, oi, di + 1, TRUE, inserted)

\* the loop over the inputs: the previous outpoint, then the script data
match_inputs(b, transaction) ==
    \E i \in 1..Len(transaction.inputs) :
        \/ contains(b, serialize_outpoint(transaction.inputs[i].previous_output))
        \/ \E di \in 1..Len(transaction.inputs[i].script_sig.data) :
               contains(b, transaction.inputs[i].script_sig.data[di])

\* mutant: the hash of the transaction is not looked up
contains_transaction_hash_skipped(b, transaction) == FALSE

\* bloom.contains(&*transaction_hash)
contains_transaction_hash(b, transaction) == contains(b, transaction.hash)

\* mutant: a connection without a filter is sent nothing
match_update_transaction_without_filter_none(bl, flags, transaction) ==
    IF bl = <<>> THEN [ret |-> "false", bloom |-> bl, inserted |-> {}]
    ELSE [ret |-> "true", bloom |-> bl, inserted |-> {}]

\* ConnectionFilter::match_update_transaction: what it returns ("true",
\* "false", or "panic" when it does not return) and the bloom it leaves.
\* bl is self.bloom: <<>> for None, <<b>> for Some(b).
match_update_transaction(bl, flags, transaction) ==
    IF bl = <<>> THEN [ret |-> "true", bloom |-> bl, inserted |-> {}]
    ELSE IF Panics(bl[1]) THEN [ret |-> "panic", bloom |-> bl, inserted |-> {}]
    ELSE
    LET outs == match_outputs(bl[1], flags, transaction, 1, 1, FALSE, {})
    IN  IF outs.is_match
        THEN [ret |-> "true", bloom |-> <<outs.bloom>>, inserted |-> outs.inserted]
        ELSE IF contains_transaction_hash(bl[1], transaction)
        THEN [ret |-> "true", bloom |-> bl, inserted |-> {}]
        ELSE IF match_inputs(bl[1], transaction)
        THEN [ret |-> "true", bloom |-> bl, inserted |-> {}]
        ELSE [ret |-> "false", bloom |-> bl, inserted |-> {}]

\* the record of the last operation on the filter
Last(op, transaction, data, ret) ==
    [op |-> op, transaction |-> transaction, data |-> data, ret |-> ret]

NoLast == Last("none", DefaultTx, <<>>, "")

FilterIdle ==
    /\ bloom = <<>>
    /\ filter_flags = "None"
    /\ before = <<>>
    /\ last = NoLast
    /\ added = {}
    /\ updated = {}
    /\ op_count = 0

\* ConnectionFilter::default()
InitFilter ==
    /\ FilterIdle
    /\ store = InitialStore
    /\ skip_pow = FALSE
    /\ skip_sig = FALSE
    /\ now = Clock
    /\ verify_state = 0
    /\ block = NoBlock
    /\ result = NoResult
    /\ pc = "idle"
    /\ checks = <<>>
    /\ cuts = {}
    /\ partials = <<>>
    /\ accepted = NoResult
    /\ apc = "new"
    /\ ExtraIdle

Running == op_count < MaxOps /\ last.ret # "panic"

\* ConnectionFilter::load
Load ==
    /\ Running
    /\ \E message \in FilterLoads :
           /\ bloom' = <<ConnectionBloom(message)>>
           /\ filter_flags' = message.flags
    /\ before' = bloom
    /\ last' = Last("load", DefaultTx, <<>>, "unit")
    /\ added' = {}
    /\ updated' = {}
    /\ op_count' = op_count + 1
    /\ UNCHANGED <<verifier_vars, acceptor_vars, extra_vars>>

\* ConnectionFilter::add
Add ==
    /\ Running
    /\ \E data \in AddData :
           IF bloom = <<>>
           THEN /\ last' = Last("add", DefaultTx, data, "unit")
                /\ UNCHANGED <<bloom, added>>
           ELSE IF Panics(bloom[1])
           THEN /\ last' = Last("add", DefaultTx, data, "panic")
                /\ UNCHANGED <<bloom, added>>
           ELSE /\ bloom' = <<insert(bloom[1], data)>>
                /\ added' = added \cup {data}
                /\ last' = Last("add", DefaultTx, data, "unit")
    /\ before' = bloom
    /\ op_count' = op_count + 1
    /\ UNCHANGED <<filter_flags, updated>>
    /\ UNCHANGED <<verifier_vars, acceptor_vars, extra_vars>>

\* ConnectionFilter::clear
Clear ==
    /\ Running
    /\ bloom' = <<>>
    /\ before' = bloom
    /\ last' = Last("clear", DefaultTx, <<>>, "unit")
    /\ added' = {}
    /\ updated' = {}
    /\ op_count' = op_count + 1
    /\ UNCHANGED filter_flags
    /\ UNCHANGED <<verifier_vars, acceptor_vars, extra_vars>>

\* ConnectionFilter::match_update_transaction
MatchUpdate ==
    /\ Running
    /\ \E transaction \in FilterTxs :
           LET done == match_update_transaction(bloom, filter_flags, transaction)
           IN  /\ bloom' = done.bloom
               /\ last' = Last("match", transaction, <<>>, done.ret)
               /\ updated' = updated \cup done.inserted
    /\ before' = bloom
    /\ op_count' = op_count + 1
    /\ UNCHANGED <<filter_flags, added>>
    /\ UNCHANGED <<verifier_vars, acceptor_vars, extra_vars>>

NextFilter == Load \/ Add \/ Clear \/ MatchUpdate

SpecFilter == InitFilter /\ [][NextFilter]_vars

----------------------------------------------------------------------------
(* ChainAcceptor::check_transactions (verification/src/accept_chain.rs):   *)
(* self.transactions.par_iter().enumerate().fold(..).reduce(..).  The      *)
(* parallel iterator splits the indexed transactions into contiguous       *)
(* pieces, folds each piece in order on some worker, and combines the      *)
(* results of adjacent pieces, the left one first, in no fixed grouping.   *)

\* Ok(())
OkUnit == Res("Ok", "")

\* what TransactionAcceptor::check of each transaction returns: "ok" or
\* the TransactionError
CheckOutcomes == {"ok", "Maturity", "Overspend"}

CheckLists == UNION {[1..n -> CheckOutcomes] : n \in 0..MaxChecks}

\* tx.check().map_err(|err| Error::Transaction(index, err))
check_at(chk, index) ==
    IF chk[index + 1] = "ok" THEN OkUnit
    ELSE ErrTransaction(index, TxErr(chk[index + 1], "", 0))

\* result.and_then(|_| ..): the next check runs only after a success
result_and_then(res, next) == IF res.tag = "Ok" THEN next ELSE res

\* the fold of one piece, positions lo..hi (1-based), from the identity
RECURSIVE fold_piece(_, _, _, _)
fold_piece(chk, res, lo, hi) ==
    IF lo > hi THEN res
    ELSE fold_piece(chk, result_and_then(res, check_at(chk, lo - 1)), lo + 1, hi)

\* mutant: the right operand wins
result_and_right_first(acc, check) == IF check.tag = "Ok" THEN acc ELSE check

\* acc.and(check)
result_and(acc, check) == IF acc.tag = "Ok" THEN check ELSE acc

\* the pieces of positions lo..n cut after the positions in c
RECURSIVE pieces_from(_, _, _)
pieces_from(lo, n, c) ==
    IF lo > n THEN <<>>
    ELSE LET later == {x \in c : x >= lo}
             hi == IF later = {} THEN n
                   ELSE CHOOSE x \in later : \A y \in later : x <= y
         IN  <<[lo |-> lo, hi |-> hi, folded |-> FALSE, res |-> OkUnit]>>
                 \o pieces_from(hi + 1, n, c)

AcceptorIdle ==
    /\ checks = <<>>
    /\ cuts = {}
    /\ partials = <<>>
    /\ accepted = NoResult
    /\ apc = "new"

\* ChainAcceptor::new for a block with any outcomes of the checks
InitAcceptor ==
    /\ checks \in CheckLists
    /\ cuts = {}
    /\ partials = <<>>
    /\ accepted = NoResult
    /\ apc = "new"
    /\ store = InitialStore
    /\ skip_pow = FALSE
    /\ skip_sig = FALSE
    /\ now = Clock
    /\ verify_state = 0
    /\ block = NoBlock
    /\ result = NoResult
    /\ pc = "idle"
    /\ FilterIdle
    /\ ExtraIdle

\* par_iter().enumerate(): the work is split at some set of cut points
SplitTransactions ==
    /\ apc = "new"
    /\ \E c \in SUBSET (1..(Len(checks) - 1)) :
           /\ cuts' = c
           /\ partials' = pieces_from(1, Len(checks), c)
    /\ apc' = "split"
    /\ UNCHANGED <<checks, accepted>>
    /\ UNCHANGED <<verifier_vars, filter_vars, extra_vars>>

\* fold(|| Ok(()), ..) of one piece, on any worker at any time
FoldPiece ==
    /\ apc = "split"
    /\ \E j \in 1..Len(partials) :
           /\ ~partials[j].folded
           /\ partials' = [partials EXCEPT
                  ![j].folded = TRUE,
                  ![j].res = fold_piece(checks, OkUnit, partials[j].lo, partials[j].hi)]
    /\ UNCHANGED <<checks, cuts, accepted, apc>>
    /\ UNCHANGED <<verifier_vars, filter_vars, extra_vars>>

\* reduce(|| Ok(()), |acc, check| acc.and(check)) on two adjacent results
ReducePair ==
    /\ apc = "split"
    /\ \E j \in 1..(Len(partials) - 1) :
           /\ partials[j].folded /\ partials[j + 1].folded
           /\ partials' =
                  SubSeq(partials, 1, j - 1)
                  \o <<[lo |-> partials[j].lo, hi |-> partials[j + 1].hi, folded |-> TRUE,
                        res |-> result_and(partials[j].res, partials[j + 1].res)]>>
                  \o SubSeq(partials, j + 2, Len(partials))
    /\ UNCHANGED <<checks, cuts, accepted, apc>>
    /\ UNCHANGED <<verifier_vars, filter_vars, extra_vars>>

\* the value of the reduce: the identity when there was nothing to fold
ReturnChecked ==
    /\ apc = "split"
    /\ \/ partials = <<>> /\ accepted' = OkUnit
       \/ /\ Len(partials) = 1
          /\ partials[1].folded
          /\ accepted' = result_and(OkUnit, partials[1].res)
    /\ apc' = "done"
    /\ UNCHANGED <<checks, cuts, partials>>
    /\ UNCHANGED <<verifier_vars, filter_vars, extra_vars>>

NextAcceptor == SplitTransactions \/ FoldPiece \/ ReducePair \/ ReturnChecked

SpecAcceptor == InitAcceptor /\ [][NextAcceptor]_vars

----------------------------------------------------------------------------
(* The synchronization node (sync/src/local_node.rs).  The executor, the   *)
(* server and the client are the type parameters T, U and V of LocalNode;  *)
(* what enters here is what the node asks of them: the executor keeps the  *)
(* tasks it is given and the connections of the peers, the server answers  *)
(* serve_* with a task or with none and keeps the tasks added to it, the   *)
(* client keeps its peers, its state and the continuations parked with it. *)

\* a verifier with nothing in hand
VerifierIdle ==
    /\ store = InitialStore
    /\ skip_pow = FALSE
    /\ skip_sig = FALSE
    /\ now = Clock
    /\ verify_state = 0
    /\ block = NoBlock
    /\ result = NoResult
    /\ pc = "idle"

\* SynchronizationTask::RequestBlocksHeaders(peer_index)
RequestBlocksHeaders(peer_index) ==
    [task |-> "RequestBlocksHeaders", peer |-> peer_index, id |-> 0]

\* SynchronizationTask::Ignore(peer_index, id)
Ignore(peer_index, id) == [task |-> "Ignore", peer |-> peer_index, id |-> id]

\* the ids of the requests of the peers
RequestIds == {1, 2}

\* InventoryVector { inv_type, hash }
InventoryVector(inv_type, hash) == [inv_type |-> inv_type, hash |-> hash]

\* types::GetData { inventory }
GetDataMessages ==
    {[inventory |-> inventory] :
        inventory \in {<<>>,
                       <<InventoryVector("MessageBlock", "genesis")>>,
                       <<InventoryVector("MessageTx", "t1"),
                         InventoryVector("MessageBlock", "genesis")>>}}

\* types::GetHeaders { block_locator_hashes, hash_stop }
GetHeadersMessages ==
    {[block_locator_hashes |-> locator, hash_stop |-> ZeroHash] :
        locator \in {<<"genesis">>, <<"elsewhere">>}}

\* ServerTask::ServeGetData(inventory), without an id
ServeGetData(inventory) == [task |-> "ServeGetData", of |-> inventory, id |-> 0]

\* ServerTask::ServeGetHeaders of the request, with the id of the request
ServeGetHeaders(message, id) == [task |-> "ServeGetHeaders", of |-> message, id |-> id]

\* Server::serve_getdata: an Option of a task; <<>> is None
serve_getdata(peer_index, message) == {<<>>, <<ServeGetData(message.inventory)>>}

\* the hashes of the blocks of the main chain of the node
MainChain == {"genesis"}

\* Server::serve_getheaders: an Option of a task; <<>> is None.  The task is
\* made when a hash of the locator is found in the main chain.
serve_getheaders(peer_index, message, id) ==
    IF \E i \in 1..Len(message.block_locator_hashes) :
           message.block_locator_hashes[i] \in MainChain
    THEN {<<ServeGetHeaders(message, id)>>}
    ELSE {<<>>}

\* a task with the peer it is for: the entries of the server queue and of
\* the continuations parked with the client
ForPeer(peer_index, task) == [peer |-> peer_index, task |-> task]

NodeCall(op, peer_index, id, message, served) ==
    [op |-> op, peer |-> peer_index, id |-> id, message |-> message, served |-> served]

\* the peers whose session is in use by the network side
Connected == {p \in 1..MaxPeers : sessions[p] \in {"open", "closing"}}

NodeRunning == node_ops < MaxNodeOps

\* LocalNode::new
InitNode ==
    /\ NodeIdle
    /\ VerifierIdle
    /\ AcceptorIdle
    /\ FilterIdle
    /\ ConnIdle
    /\ MoreIdle

not_node_vars == <<verifier_vars, acceptor_vars, filter_vars, conn_vars, more_vars>>

\* mutant: the counter of the peers is read and not advanced
node_counter_after_fetch_without_add(counter) == counter

\* self.peer_counter.fetch_add(1, Ordering::SeqCst): the counter afterwards
node_counter_after_fetch_add(counter) == counter + 1

\* create_sync_session, first step: peer_counter.fetch_add(1, SeqCst) + 1
CreateFetchAdd(t) ==
    /\ NodeRunning
    /\ calls[t].pc = "idle"
    /\ node_peer_counter < MaxPeers
    /\ node_peer_counter' = node_counter_after_fetch_add(node_peer_counter)
    /\ calls' = [calls EXCEPT ![t] = [pc |-> "on_peer_connected",
                                      peer |-> node_peer_counter + 1]]
    /\ sessions' = [sessions EXCEPT ![node_peer_counter + 1] = "creating"]
    /\ node_last' = NodeCall("create_sync_session", node_peer_counter + 1, 0, <<>>, <<>>)
    /\ node_ops' = node_ops + 1
    /\ UNCHANGED <<client_peers, executor_peers, synchronizing, executor_tasks,
                   server_tasks, parked>>
    /\ UNCHANGED not_node_vars

\* create_sync_session, second step: self.client.lock().on_peer_connected(peer_index)
CreateClient(t) ==
    /\ calls[t].pc = "on_peer_connected"
    /\ client_peers' = client_peers \cup {calls[t].peer}
    /\ calls' = [calls EXCEPT ![t].pc = "add_peer_connection"]
    /\ UNCHANGED <<node_peer_counter, executor_peers, synchronizing, executor_tasks,
                   server_tasks, parked, sessions, node_last, node_ops>>
    /\ UNCHANGED not_node_vars

\* create_sync_session, last step:
\* self.executor.lock().add_peer_connection(peer_index, ..); peer_index
CreateExecutor(t) ==
    /\ calls[t].pc = "add_peer_connection"
    /\ executor_peers' = executor_peers \cup {calls[t].peer}
    /\ sessions' = [sessions EXCEPT ![calls[t].peer] = "open"]
    /\ calls' = [calls EXCEPT ![t] = IdleCall]
    /\ UNCHANGED <<node_peer_counter, client_peers, synchronizing, executor_tasks,
                   server_tasks, parked, node_last, node_ops>>
    /\ UNCHANGED not_node_vars

\* mutant: the request for headers goes to the peer created last
start_sync_session_to_latest(peer_index, counter) == RequestBlocksHeaders(counter)

\* the task of start_sync_session
start_sync_session_task(peer_index, counter) == RequestBlocksHeaders(peer_index)

\* start_sync_session
StartSyncSession ==
    /\ NodeRunning
    /\ \E peer_index \in Connected :
           /\ executor_tasks' =
                  Append(executor_tasks,
                         start_sync_session_task(peer_index, node_peer_counter))
           /\ node_last' = NodeCall("start_sync_session", peer_index, 0, <<>>, <<>>)
    /\ node_ops' = node_ops + 1
    /\ UNCHANGED <<node_peer_counter, client_peers, executor_peers, synchronizing,
                   server_tasks, parked, sessions, calls>>
    /\ UNCHANGED not_node_vars

\* stop_sync_session, first step:
\* self.executor.lock().remove_peer_connection(peer_index)
StopExecutor(t) ==
    /\ NodeRunning
    /\ calls[t].pc = "idle"
    /\ \E peer_index \in {p \in 1..MaxPeers : sessions[p] = "open"} :
           /\ executor_peers' = executor_peers \ {peer_index}
           /\ sessions' = [sessions EXCEPT ![peer_index] = "closing"]
           /\ calls' = [calls EXCEPT ![t] = [pc |-> "on_peer_disconnected",
                                             peer |-> peer_index]]
           /\ node_last' = NodeCall("stop_sync_session", peer_index, 0, <<>>, <<>>)
    /\ node_ops' = node_ops + 1
    /\ UNCHANGED <<node_peer_counter, client_peers, synchronizing, executor_tasks,
                   server_tasks, parked>>
    /\ UNCHANGED not_node_vars

\* stop_sync_session, last step:
\* self.client.lock().on_peer_disconnected(peer_index)
StopClient(t) ==
    /\ calls[t].pc = "on_peer_disconnected"
    /\ client_peers' = client_peers \ {calls[t].peer}
    /\ sessions' = [sessions EXCEPT ![calls[t].peer] = "closed"]
    /\ calls' = [calls EXCEPT ![t] = IdleCall]
    /\ UNCHANGED <<node_peer_counter, executor_peers, synchronizing, executor_tasks,
                   server_tasks, parked, node_last, node_ops>>
    /\ UNCHANGED not_node_vars

\* mutant: the task is queued for the first peer
getdata_tasks_for_first_peer(peer_index, served) ==
    IF served = <<>> THEN <<>> ELSE <<ForPeer(1, served[1])>>

\* .map(|t| self.server.add_task(peer_index, t)): the tasks added to the server
getdata_tasks(peer_index, served) ==
    IF served = <<>> THEN <<>> ELSE <<ForPeer(peer_index, served[1])>>

\* on_peer_getdata
OnPeerGetData ==
    /\ NodeRunning
    /\ \E peer_index \in Connected, message \in GetDataMessages :
           \E served \in serve_getdata(peer_index, message) :
               /\ server_tasks' = server_tasks \o getdata_tasks(peer_index, served)
               /\ node_last' = NodeCall("getdata", peer_index, 0, message, served)
    /\ node_ops' = node_ops + 1
    /\ UNCHANGED <<node_peer_counter, client_peers, executor_peers, synchronizing,
                   executor_tasks, parked, sessions, calls>>
    /\ UNCHANGED not_node_vars

\* mutant: a request made while synchronizing is dropped
getheaders_dropped_while_synchronizing(peer_index, id) == <<>>

\* the tasks on_peer_getheaders executes while the client is synchronizing
getheaders_while_synchronizing(peer_index, id) == <<Ignore(peer_index, id)>>

\* where on_peer_getheaders puts the task of the server: with the client
getheaders_destination(peer_index, served) == "client"

\* on_peer_getheaders
OnPeerGetHeaders ==
    /\ NodeRunning
    /\ \E peer_index \in Connected, message \in GetHeadersMessages, id \in RequestIds :
           IF synchronizing
           THEN /\ executor_tasks' =
                      executor_tasks \o getheaders_while_synchronizing(peer_index, id)
                /\ node_last' = NodeCall("getheaders", peer_index, id, message, <<>>)
                /\ UNCHANGED <<server_tasks, parked>>
           ELSE \E served \in serve_getheaders(peer_index, message, id) :
                    /\ node_last' = NodeCall("getheaders", peer_index, id, message, served)
                    /\ IF served = <<>> THEN UNCHANGED <<server_tasks, parked>>
                       ELSE IF getheaders_destination(peer_index, served) = "client"
                       THEN /\ parked' = Append(parked, ForPeer(peer_index, served[1]))
                            /\ UNCHANGED server_tasks
                       ELSE /\ server_tasks' =
                                   Append(server_tasks, ForPeer(peer_index, served[1]))
                            /\ UNCHANGED parked
                    /\ UNCHANGED executor_tasks
    /\ node_ops' = node_ops + 1
    /\ UNCHANGED <<node_peer_counter, client_peers, executor_peers, synchronizing,
                   sessions, calls>>
    /\ UNCHANGED not_node_vars

\* the client enters or leaves the synchronizing state
ClientStateChanges ==
    /\ NodeRunning
    /\ synchronizing' = ~synchronizing
    /\ UNCHANGED <<node_peer_counter, client_peers, executor_peers, executor_tasks,
                   server_tasks, parked, sessions, calls, node_last, node_ops>>
    /\ UNCHANGED not_node_vars

\* the client fires the continuation it has held longest: the task built by
\* task.future(peer_index, weak_server) is added to the server
ClientFires ==
    /\ parked # <<>>
    /\ server_tasks' = Append(server_tasks, Head(parked))
    /\ parked' = Tail(parked)
    /\ node_last' = NodeCall("fire", Head(parked).peer, Head(parked).task.id, <<>>, <<>>)
    /\ UNCHANGED <<node_peer_counter, client_peers, executor_peers, synchronizing,
                   executor_tasks, sessions, calls, node_ops>>
    /\ UNCHANGED not_node_vars

NextNode ==
    \/ \E t \in NodeThreads :
           CreateFetchAdd(t) \/ CreateClient(t) \/ CreateExecutor(t)
               \/ StopExecutor(t) \/ StopClient(t)
    \/ StartSyncSession
    \/ OnPeerGetData
    \/ OnPeerGetHeaders
    \/ ClientStateChanges
    \/ ClientFires

SpecNode == InitNode /\ [][NextNode]_vars

----------------------------------------------------------------------------
(* The registry of the connections (p2p/src/net/connections.rs) and the    *)
(* loop over the incoming messages (P2P::handle_messages).  The map of the *)
(* channels is a function from the ids in use to the channels.             *)

\* Channel::new(connection, id, Session::new(context, id))
Channel(id) == [id |-> id, session |-> id]

\* HashMap::insert
map_insert(map, key, value) ==
    [k \in DOMAIN map \cup {key} |-> IF k = key THEN value ELSE map[k]]

\* mutant: the entry is returned and left in the map
map_remove_leaves_entry(map, key) == map

\* HashMap::remove
map_remove(map, key) == [k \in DOMAIN map \ {key} |-> map[k]]

ConnCall(op, id, outcome) == [op |-> op, id |-> id, outcome |-> outcome]

ConnRunning == conn_ops < MaxConnOps

\* Connections::new
InitConnections ==
    /\ ConnIdle
    /\ NodeIdle
    /\ VerifierIdle
    /\ AcceptorIdle
    /\ FilterIdle
    /\ MoreIdle

not_conn_vars == <<verifier_vars, acceptor_vars, filter_vars, node_vars, more_vars>>

\* mutant: the counter is read and not advanced
counter_after_fetch_without_add(counter) == counter

\* self.peer_counter.fetch_add(1, Ordering::AcqRel): the counter afterwards
counter_after_fetch_add(counter) == counter + 1

\* store, first step: let id = self.peer_counter.fetch_add(1, AcqRel)
StoreFetchAdd(t) ==
    /\ ConnRunning
    /\ conn_calls[t].pc = "idle"
    /\ conn_peer_counter < MaxChannels
    /\ conn_peer_counter' = counter_after_fetch_add(conn_peer_counter)
    /\ conn_calls' = [conn_calls EXCEPT ![t] = [pc |-> "insert", id |-> conn_peer_counter]]
    /\ conn_last' = ConnCall("store", conn_peer_counter, "")
    /\ conn_ops' = conn_ops + 1
    /\ conn_returned' = <<>>
    /\ UNCHANGED <<channels, stored, handled, incoming, removed, snapshot>>
    /\ UNCHANGED not_conn_vars

\* store, last step: the session and the channel are made with the id, the
\* channel is inserted under the id and returned
StoreInsert(t) ==
    /\ conn_calls[t].pc = "insert"
    /\ channels' = map_insert(channels, conn_calls[t].id, Channel(conn_calls[t].id))
    /\ stored' = Append(stored, Channel(conn_calls[t].id))
    /\ conn_calls' = [conn_calls EXCEPT ![t] = [pc |-> "idle", id |-> 0]]
    /\ UNCHANGED <<conn_peer_counter, handled, incoming, conn_last, conn_ops,
                   removed, conn_returned, snapshot>>
    /\ UNCHANGED not_conn_vars

\* what HashMap::remove returns: an Option of the value; <<>> is None
map_removed(map, key) == IF key \in DOMAIN map THEN <<map[key]>> ELSE <<>>

\* .into_iter().map(|(_, value)| value).collect(): the values of the map.
\* The order of the Vec is that of the iteration of the HashMap, which
\* nothing below depends on; the values are listed by ascending key.
map_values(map) ==
    [i \in 1..Cardinality(DOMAIN map) |->
        map[CHOOSE k \in DOMAIN map : Cardinality({j \in DOMAIN map : j < k}) = i - 1]]

\* Connections::count
count(map) == Cardinality(DOMAIN map)

\* Connections::remove
Remove ==
    /\ ConnRunning
    /\ \E id \in 0..(MaxChannels - 1) :
           /\ channels' = map_remove(channels, id)
           /\ conn_returned' = map_removed(channels, id)
           /\ removed' = removed \o map_removed(channels, id)
           /\ conn_last' = ConnCall("remove", id, "")
    /\ conn_ops' = conn_ops + 1
    /\ UNCHANGED <<conn_peer_counter, conn_calls, stored, handled, incoming, snapshot>>
    /\ UNCHANGED not_conn_vars

\* mem::replace(&mut *self.channels.write(), HashMap::new()): the map left
map_replaced(map) == <<>>

\* Connections::remove_all
RemoveAll ==
    /\ ConnRunning
    /\ channels' = map_replaced(channels)
    /\ conn_returned' = map_values(channels)
    /\ removed' = removed \o map_values(channels)
    /\ conn_last' = ConnCall("remove_all", 0, "")
    /\ conn_ops' = conn_ops + 1
    /\ UNCHANGED <<conn_peer_counter, conn_calls, stored, handled, incoming, snapshot>>
    /\ UNCHANGED not_conn_vars

\* Connections::channels: self.channels.read().clone()
Channels ==
    /\ ConnRunning
    /\ snapshot' = channels
    /\ conn_returned' = <<>>
    /\ conn_last' = ConnCall("channels", 0, "")
    /\ conn_ops' = conn_ops + 1
    /\ UNCHANGED <<conn_peer_counter, channels, conn_calls, stored, handled, incoming,
                   removed>>
    /\ UNCHANGED not_conn_vars

\* mutant: an error drops every channel
channels_after_error_none(map, peerid) == <<>>

\* if let Err(_err) = subscriber.try_handle(..) { connections.remove(peerid); }
channels_after_error(map, peerid) == map_remove(map, peerid)

\* the closure of for_each returns Ok(()) whatever the outcome: the stream
\* of the incoming messages is read on
incoming_after(outcome) == "running"

\* P2P::handle_messages: one message of the stream, from a peer whose
\* channel was stored, with the outcome of subscriber.try_handle
HandleMessage ==
    /\ ConnRunning
    /\ incoming = "running"
    /\ \E i \in 1..Len(stored), outcome \in {"Ok", "Err"} :
           LET peerid == stored[i].id
           IN  /\ channels' = IF outcome = "Err"
                              THEN channels_after_error(channels, peerid)
                              ELSE channels
               /\ handled' = Append(handled, <<peerid, outcome>>)
               /\ incoming' = incoming_after(outcome)
               /\ conn_last' = ConnCall("handle", peerid, outcome)
               /\ removed' = IF outcome = "Err"
                             THEN removed \o map_removed(channels, peerid)
                             ELSE removed
    /\ conn_ops' = conn_ops + 1
    /\ conn_returned' = <<>>
    /\ UNCHANGED <<conn_peer_counter, conn_calls, stored, snapshot>>
    /\ UNCHANGED not_conn_vars

NextConnections ==
    \/ \E t \in ConnThreads : StoreFetchAdd(t) \/ StoreInsert(t)
    \/ Remove
    \/ RemoveAll
    \/ Channels
    \/ HandleMessage

SpecConnections == InitConnections /\ [][NextConnections]_vars

----------------------------------------------------------------------------
(* One session of a peer (p2p/src/session.rs).  The protocol handlers are  *)
(* named; what a handler does with a message is outside the session and    *)
(* enters as what it returns.  The handlers are called under the lock of   *)
(* the list, so a call on the session runs from its first handler to its   *)
(* return before the next call starts.                                     *)

SessionKinds == {"normal", "seednode"}

\* NormalSessionFactory::new_session / SeednodeSessionFactory::new_session
new_session(kind) ==
    IF kind = "seednode"
    THEN <<"ping", "addr", "seednode">>
    ELSE <<"ping", "addr", "sync">>

\* the commands and the payloads of the messages delivered
SessionCommands == {"ping", "getheaders"}

SessionPayloads == {<<>>, <<1>>}

\* message::Error, as far as the sources name it
SessionErrors == {"Deserialize", "WrongMagic"}

\* Result<(), Error> of Protocol::on_message
HandlerResults == {"Ok"} \cup SessionErrors

SessionCall(op, command, payload) == [op |-> op, command |-> command, payload |-> payload]

\* what one handler is called with
Delivery(handler, call) ==
    [handler |-> handler, op |-> call.op, command |-> call.command,
     payload |-> call.payload]

InitSession ==
    /\ SessionIdle
    /\ SessionRest
    /\ NodeIdle
    /\ ConnIdle
    /\ VerifierIdle
    /\ AcceptorIdle
    /\ FilterIdle

not_session_vars ==
    <<verifier_vars, acceptor_vars, filter_vars, node_vars, conn_vars, merkle_vars,
      header_vars, lock_vars>>

\* Session::new, from one of the two factories
NewSession ==
    /\ session_state = "none"
    /\ \E kind \in SessionKinds :
          /\ protocols' = new_session(kind)
          /\ session_state' = kind
    /\ UNCHANGED <<session_pc, session_call, received, outcomes, session_ret,
                   session_ops>>
    /\ UNCHANGED not_session_vars

\* the lock of the list is taken: initialize, on_message or on_close starts
SessionBegin(call) ==
    /\ session_state # "none"
    /\ session_pc = "idle"
    /\ session_ops < MaxSessionOps
    /\ session_call' = call
    /\ received' = <<>>
    /\ outcomes' = <<>>
    /\ session_ret' = "none"
    /\ session_pc' = "running"
    /\ session_ops' = session_ops + 1
    /\ UNCHANGED <<protocols, session_state>>
    /\ UNCHANGED not_session_vars

Initialize == SessionBegin(SessionCall("initialize", "", <<>>))

OnMessage ==
    \E command \in SessionCommands, payload \in SessionPayloads :
        SessionBegin(SessionCall("on_message", command, payload))

OnClose == SessionBegin(SessionCall("on_close", "", <<>>))

\* mutant: the handlers after a failing one are still called
on_message_never_stops(results) == FALSE

\* collect::<Result<Vec<_>, Error>>() takes no further item after an Err
on_message_stops(results) ==
    /\ Len(results) > 0
    /\ results[Len(results)] # "Ok"

\* the iteration is over: the list is at its end, or on_message met an Err
SessionDone ==
    \/ Len(received) = Len(protocols)
    \/ /\ session_call.op = "on_message"
       /\ on_message_stops(outcomes)

\* what a handler may return to the call
results_of(op) == IF op = "on_message" THEN HandlerResults ELSE {"()"}

\* the next handler of the list is called
Deliver ==
    /\ session_pc = "running"
    /\ ~SessionDone
    /\ LET protocol == protocols[Len(received) + 1]
       IN  /\ received' = Append(received, Delivery(protocol, session_call))
           /\ \E r \in results_of(session_call.op) : outcomes' = Append(outcomes, r)
    /\ UNCHANGED <<protocols, session_state, session_pc, session_call, session_ret,
                   session_ops>>
    /\ UNCHANGED not_session_vars

RECURSIVE collect(_)
\* the first Err of the results, or Ok
collect(results) ==
    IF results = <<>>
    THEN "Ok"
    ELSE IF results[1] # "Ok"
         THEN results[1]
         ELSE collect(Tail(results))

\* what the call returns
session_return(op, results) == IF op = "on_message" THEN collect(results) ELSE "()"

\* the call returns and the lock is given back
SessionReturn ==
    /\ session_pc = "running"
    /\ SessionDone
    /\ session_ret' = session_return(session_call.op, outcomes)
    /\ session_pc' = "idle"
    /\ UNCHANGED <<protocols, session_state, session_call, received, outcomes,
                   session_ops>>
    /\ UNCHANGED not_session_vars

NextSession ==
    \/ NewSession
    \/ Initialize
    \/ OnMessage
    \/ OnClose
    \/ Deliver
    \/ SessionReturn

SpecSession == InitSession /\ [][NextSession]_vars

----------------------------------------------------------------------------
(* chain::merkle_root and IndexedBlock::merkle_root (db/src/indexed_block) *)
(* applied to lists of hashes and to indexed blocks.  A hash is a sequence *)
(* of tokens, a leaf is one token.                                         *)

LeafHashes == {<<"a">>, <<"b">>, <<"c">>}

RawTransactions == {"raw1", "raw2"}

\* IndexedTransaction: the hash kept beside the raw transaction
IndexedTransaction(hash, raw) == [hash |-> hash, raw |-> raw]

IndexedTransactions ==
    {IndexedTransaction(h, r) : h \in LeafHashes, r \in RawTransactions}

NonEmptySeqs(S, n) == UNION {[1..k -> S] : k \in 1..n}

\* the lists handed to merkle_root: at least one hash
MerkleInputs == NonEmptySeqs(LeafHashes, MaxLeaves)

IndexedBlocks ==
    {IndexedBlock("header", txs) : txs \in NonEmptySeqs(IndexedTransactions, MaxBlockTxs)}

\* self.transactions.iter().map(|tx| tx.hash.clone()).collect::<Vec<_>>()
indexed_block_hashes(iblock) ==
    [i \in 1..Len(iblock.transactions) |-> iblock.transactions[i].hash]

\* IndexedBlock::merkle_root
indexed_block_merkle_root(iblock) == merkle_root(indexed_block_hashes(iblock))

InitMerkle ==
    /\ merkle_input \in MerkleInputs
    /\ merkle_output = NoHash
    /\ indexed_block \in IndexedBlocks
    /\ indexed_output = NoHash
    /\ merkle_frames = <<>>
    /\ merkle_pc = "idle"
    /\ HeaderIdle
    /\ LockIdle
    /\ SessionIdle
    /\ NodeIdle
    /\ ConnIdle
    /\ VerifierIdle
    /\ AcceptorIdle
    /\ FilterIdle

not_merkle_vars ==
    <<verifier_vars, acceptor_vars, filter_vars, node_vars, conn_vars, session_vars,
      header_vars, lock_vars>>

\* merkle_root(&hashes)
MerkleRoot ==
    /\ merkle_output = NoHash
    /\ merkle_output' = merkle_root(merkle_input)
    /\ UNCHANGED <<merkle_input, indexed_block, indexed_output, merkle_frames, merkle_pc>>
    /\ UNCHANGED not_merkle_vars

\* block.merkle_root()
IndexedBlockMerkleRoot ==
    /\ indexed_output = NoHash
    /\ indexed_output' = indexed_block_merkle_root(indexed_block)
    /\ UNCHANGED <<merkle_input, merkle_output, indexed_block, merkle_frames, merkle_pc>>
    /\ UNCHANGED not_merkle_vars

NextMerkle ==
    \/ MerkleRoot
    \/ IndexedBlockMerkleRoot

SpecMerkle == InitMerkle /\ [][NextMerkle]_vars

----------------------------------------------------------------------------
(* The header of a message (message/src/message/message_header.rs).  The   *)
(* bytes of a stream are numbers 0..255; a u32 is the pair of its halves.  *)
(* Magic, Command, H32 and the Stream and the Reader of the serialization  *)
(* are used by the header and defined elsewhere.                           *)

\* the length of a header on the wire
HeaderSize == 24

Magics == {"Mainnet", "Testnet", "Regtest"}

\* u32::from(Magic): the value whose little-endian bytes are the magic on the wire
magic_to_u32(magic) ==
    CASE magic = "Mainnet" -> U32(55732, 48889)
      [] magic = "Testnet" -> U32(1801, 4363)
      [] magic = "Regtest" -> U32(55989, 49146)

\* Magic::from_u32
magic_from_u32(value) ==
    IF \E magic \in Magics : magic_to_u32(magic) = value
    THEN [tag |-> "Ok", magic |-> CHOOSE magic \in Magics : magic_to_u32(magic) = value]
    ELSE [tag |-> "Err", magic |-> ""]

\* Stream::append(&u32): four bytes, the lowest first
append_u32(value) ==
    <<value[2] % 256, value[2] \div 256, value[1] % 256, value[1] \div 256>>

\* Reader::read::<u32>
read_u32(bytes) == U32(bytes[3] + 256 * bytes[4], bytes[1] + 256 * bytes[2])

\* Stream::append(&Command) and Stream::append(&H32): the bytes as they are
append_bytes(bytes) == bytes

\* Reader::read::<Command>, Reader::read::<H32>: the next bytes as they are
read_bytes(data, from, to) == SubSeq(data, from, to)

\* mutant: the checksum is written before the length
serialize_checksum_before_len(header) ==
    append_u32(magic_to_u32(header.magic)) \o append_bytes(header.command)
        \o append_bytes(header.checksum) \o append_u32(header.len)

\* impl Serializable for MessageHeader
serialize(header) ==
    append_u32(magic_to_u32(header.magic)) \o append_bytes(header.command)
        \o append_u32(header.len) \o append_bytes(header.checksum)

\* MessageHeader::deserialize
deserialize(data, expected) ==
    IF Len(data) # HeaderSize
    THEN HeaderErr("Deserialize")
    ELSE LET magic == magic_from_u32(read_u32(read_bytes(data, 1, 4)))
         IN  IF magic.tag = "Err"
             THEN HeaderErr("InvalidMagic")
             ELSE IF expected # magic.magic
             THEN HeaderErr("WrongMagic")
             ELSE HeaderOk(MessageHeader(magic.magic,
                                         read_bytes(data, 5, 16),
                                         read_u32(read_bytes(data, 17, 20)),
                                         read_bytes(data, 21, 24)))

\* "addr".into(), "getheaders".into(): the name padded with zeros to 12 bytes
CommandAddr == <<97, 100, 100, 114, 0, 0, 0, 0, 0, 0, 0, 0>>

CommandGetHeaders == <<103, 101, 116, 104, 101, 97, 100, 101, 114, 115, 0, 0>>

HeaderCommands == {CommandAddr, CommandGetHeaders}

HeaderLens == {U32(0, 0), U32(0, 31), U32(65535, 65535), U32(258, 772)}

HeaderChecksums == {<<237, 82, 57, 155>>, <<0, 0, 0, 255>>}

MessageHeaders ==
    {MessageHeader(magic, command, len, checksum) :
        magic \in Magics, command \in HeaderCommands, len \in HeaderLens,
        checksum \in HeaderChecksums}

\* the magic of no network
UnknownMagic == <<1, 2, 3, 4>>

\* what may come in for a header: a serialized header, one with a byte
\* missing or a byte too many, one with the magic of no network, nothing
DataOf(header) ==
    LET stream == serialize(header)
    IN  {stream,
         SubSeq(stream, 1, Len(stream) - 1),
         stream \o <<0>>,
         UnknownMagic \o SubSeq(stream, 5, Len(stream)),
         <<>>}

HeaderData == UNION {DataOf(header) : header \in MessageHeaders}

InitHeader ==
    /\ mh_header \in MessageHeaders
    /\ mh_stream = <<>>
    /\ mh_data \in HeaderData
    /\ mh_expected \in Magics
    /\ mh_result = NoHeaderResult
    /\ MerkleIdle
    /\ LockIdle
    /\ SessionIdle
    /\ NodeIdle
    /\ ConnIdle
    /\ VerifierIdle
    /\ AcceptorIdle
    /\ FilterIdle

not_header_vars ==
    <<verifier_vars, acceptor_vars, filter_vars, node_vars, conn_vars, session_vars,
      merkle_vars, lock_vars>>

\* serialize(&header)
Serialize ==
    /\ mh_stream = <<>>
    /\ mh_stream' = serialize(mh_header)
    /\ UNCHANGED <<mh_header, mh_data, mh_expected, mh_result>>
    /\ UNCHANGED not_header_vars

\* MessageHeader::deserialize(&data, expected)
Deserialize ==
    /\ mh_result = NoHeaderResult
    /\ mh_result' = deserialize(mh_data, mh_expected)
    /\ UNCHANGED <<mh_header, mh_stream, mh_data, mh_expected>>
    /\ UNCHANGED not_header_vars

NextHeader ==
    \/ Serialize
    \/ Deserialize

SpecHeader == InitHeader /\ [][NextHeader]_vars

----------------------------------------------------------------------------
(* merkle_root call by call: every call that has not returned holds a     *)
(* frame of the stack with the row it was called on.  The stack has room  *)
(* for MaxFrames calls; a call beyond that ends the run (the guard page   *)
(* of the thread), unless the build turned the tail call into a loop, and *)
(* then the function goes round without end.                              *)

\* hashes: &[H256] of any length, as BlockBuilder::merkled_header hands them
\* in for a block of any number of transactions
AnyHashes == {<<>>} \cup MerkleInputs

\* merkle_root(&hashes) is called
InitMerkleCalls ==
    /\ merkle_input \in AnyHashes
    /\ merkle_frames = <<merkle_input>>
    /\ merkle_pc = "running"
    /\ merkle_output = NoHash
    /\ indexed_block = IndexedBlock("none", <<>>)
    /\ indexed_output = NoHash
    /\ HeaderIdle
    /\ LockIdle
    /\ SessionIdle
    /\ NodeIdle
    /\ ConnIdle
    /\ VerifierIdle
    /\ AcceptorIdle
    /\ FilterIdle

\* the row the running call was called on
running_hashes == merkle_frames[Len(merkle_frames)]

\* if hashes.len() == 1 { return hashes[0].clone(); }, handed down through
\* the calls that wait for it
MerkleReturn ==
    /\ merkle_pc = "running"
    /\ Len(running_hashes) = 1
    /\ merkle_output' = running_hashes[1]
    /\ merkle_frames' = <<>>
    /\ merkle_pc' = "returned"
    /\ UNCHANGED <<merkle_input, indexed_block, indexed_output>>
    /\ UNCHANGED not_merkle_vars

\* the row is built and merkle_root(&row) is called
MerkleRecurse ==
    /\ merkle_pc = "running"
    /\ Len(running_hashes) # 1
    /\ Len(merkle_frames) < MaxFrames
    /\ merkle_frames' = Append(merkle_frames, merkle_row(running_hashes, 1))
    /\ UNCHANGED <<merkle_input, merkle_output, indexed_block, indexed_output, merkle_pc>>
    /\ UNCHANGED not_merkle_vars

\* a call for which the stack has no room
MerkleStackOverflow ==
    /\ merkle_pc = "running"
    /\ Len(running_hashes) # 1
    /\ Len(merkle_frames) = MaxFrames
    /\ merkle_pc' = "overflow"
    /\ UNCHANGED <<merkle_input, merkle_output, indexed_block, indexed_output,
                   merkle_frames>>
    /\ UNCHANGED not_merkle_vars

NextMerkleCalls ==
    \/ MerkleReturn
    \/ MerkleRecurse
    \/ MerkleStackOverflow

SpecMerkleCalls == InitMerkleCalls /\ [][NextMerkleCalls]_vars

----------------------------------------------------------------------------
(* The two mutexes of LocalNode (sync/src/local_node.rs): which methods    *)
(* take which, in what order.  A guard made inside a statement is dropped  *)
(* at the end of the statement; the guard bound to client in               *)
(* on_peer_getheaders is dropped when the method returns.                  *)

Lock(m) == <<"lock", m>>

Unlock(m) == <<"unlock", m>>

\* self.client.lock().f(..);
ClientStatement == <<Lock("client"), Unlock("client")>>

\* self.executor.lock().f(..);
ExecutorStatement == <<Lock("executor"), Unlock("executor")>>

\* the methods of LocalNode
NodeMethods ==
    {"best_block", "create_sync_session", "start_sync_session", "stop_sync_session",
     "on_peer_inventory", "on_peer_getdata", "on_peer_getblocks", "on_peer_getheaders",
     "on_peer_transaction", "on_peer_block", "on_peer_headers", "on_peer_mempool",
     "on_peer_filterload", "on_peer_filteradd", "on_peer_filterclear",
     "on_peer_merkleblock", "on_peer_notfound"}

\* the ways through a method that differ in the locks taken: the conditions
\* the method tests on its message and on the state of the client
Branches(method) ==
    CASE method = "on_peer_inventory" -> {"blocks and transactions", "blocks",
                                          "transactions", "neither"}
      [] method = "on_peer_getheaders" -> {"synchronizing", "served"}
      [] method = "on_peer_headers" -> {"headers", "empty"}
      [] OTHER -> {"only"}

\* mutant: the client is told while the lock of the executor is held
stop_sync_session_holding_executor ==
    <<Lock("executor"), Lock("client"), Unlock("client"), Unlock("executor")>>

\* stop_sync_session: self.executor.lock().remove_peer_connection(peer_index);
\* self.client.lock().on_peer_disconnected(peer_index);
stop_sync_session_locks == ExecutorStatement \o ClientStatement

\* the acquisitions and releases of a method, in the order of its statements
locks_of(method, branch) ==
    CASE method = "best_block" -> ClientStatement
      [] method = "create_sync_session" -> ClientStatement \o ExecutorStatement
      [] method = "start_sync_session" -> ExecutorStatement
      [] method = "stop_sync_session" -> stop_sync_session_locks
      [] method = "on_peer_inventory" ->
             (IF branch \in {"blocks and transactions", "blocks"}
              THEN ClientStatement ELSE <<>>)
                 \o (IF branch \in {"blocks and transactions", "transactions"}
                     THEN ClientStatement ELSE <<>>)
      [] method = "on_peer_getheaders" ->
             IF branch = "synchronizing"
             THEN <<Lock("client")>> \o ExecutorStatement \o <<Unlock("client")>>
             ELSE ClientStatement
      [] method = "on_peer_headers" ->
             IF branch = "headers" THEN ClientStatement ELSE <<>>
      [] method \in {"on_peer_transaction", "on_peer_block", "on_peer_filterload",
                     "on_peer_filteradd", "on_peer_filterclear", "on_peer_notfound"} ->
             ClientStatement
      [] OTHER -> <<>>

\* LocalNode::new, and threads about to call its methods
InitLocks ==
    /\ LockIdle
    /\ SessionIdle
    /\ MerkleIdle
    /\ HeaderIdle
    /\ NodeIdle
    /\ ConnIdle
    /\ VerifierIdle
    /\ AcceptorIdle
    /\ FilterIdle

not_lock_vars ==
    <<verifier_vars, acceptor_vars, filter_vars, node_vars, conn_vars, session_vars,
      merkle_vars, header_vars>>

\* a thread calls a method of the node
MethodCalled(t) ==
    /\ lock_calls[t] = NoLockCall
    /\ \E method \in NodeMethods :
           \E branch \in Branches(method) :
               lock_calls' = [lock_calls EXCEPT ![t] =
                                  LockCall(method, locks_of(method, branch))]
    /\ UNCHANGED mutex_owner
    /\ UNCHANGED not_lock_vars

\* Mutex::lock: the thread gets the mutex when no thread holds it, and waits
\* otherwise (the mutex is not reentrant: so does the thread that holds it)
MutexLock(t) ==
    /\ lock_calls[t].steps # <<>>
    /\ Head(lock_calls[t].steps)[1] = "lock"
    /\ mutex_owner[Head(lock_calls[t].steps)[2]] = NoThread
    /\ mutex_owner' = [mutex_owner EXCEPT ![Head(lock_calls[t].steps)[2]] = t]
    /\ lock_calls' = [lock_calls EXCEPT ![t].steps = Tail(lock_calls[t].steps)]
    /\ UNCHANGED not_lock_vars

\* the guard is dropped
MutexUnlock(t) ==
    /\ lock_calls[t].steps # <<>>
    /\ Head(lock_calls[t].steps)[1] = "unlock"
    /\ mutex_owner' = [mutex_owner EXCEPT ![Head(lock_calls[t].steps)[2]] = NoThread]
    /\ lock_calls' = [lock_calls EXCEPT ![t].steps = Tail(lock_calls[t].steps)]
    /\ UNCHANGED not_lock_vars

\* the method returns
MethodReturns(t) ==
    /\ lock_calls[t].method # "none"
    /\ lock_calls[t].steps = <<>>
    /\ lock_calls' = [lock_calls EXCEPT ![t] = NoLockCall]
    /\ UNCHANGED mutex_owner
    /\ UNCHANGED not_lock_vars

NextLocks ==
    \E t \in NodeThreads :
        MethodCalled(t) \/ MutexLock(t) \/ MutexUnlock(t) \/ MethodReturns(t)

SpecLocks == InitLocks /\ [][NextLocks]_vars

----------------------------------------------------------------------------
(* The verifier at work *)

\* ChainVerifier::new(store), with or without .pow_skip() and .signatures_skip()
Init ==
    /\ store = InitialStore
    /\ skip_pow \in BOOLEAN
    /\ skip_sig \in BOOLEAN
    /\ now = Clock
    /\ verify_state = 0
    /\ block = NoBlock
    /\ result = NoResult
    /\ pc = "idle"
    /\ AcceptorIdle
    /\ FilterIdle
    /\ ExtraIdle

\* a block arrives from a peer
Receive ==
    /\ pc = "idle"
    /\ \E b \in Blocks : block' = b
    /\ pc' = "received"
    /\ UNCHANGED <<store, skip_pow, skip_sig, now, result, verify_state>>
    /\ UNCHANGED <<acceptor_vars, filter_vars, extra_vars>>

\* mutant: verify marks the store outputs spent by the block
store_after_verify_marks_spent(s, blk) ==
    LET spent_by_block(h, n) ==
            \E i \in 2..Len(blk.transactions) :
                \E k \in 1..Len(blk.transactions[i].inputs) :
                    /\ blk.transactions[i].inputs[k].prev_hash = h
                    /\ blk.transactions[i].inputs[k].prev_index = n - 1
        marked(h) ==
            [n \in DOMAIN s.txs[h].meta.spent |->
                s.txs[h].meta.spent[n] \/ spent_by_block(h, n)]
    IN  [s EXCEPT !.txs =
            [h \in DOMAIN s.txs |-> [s.txs[h] EXCEPT !.meta.spent = marked(h)]]]

\* what verify leaves in the store: it only reads (&self, Arc<db::Store>)
store_after_verify(s, blk) == s

\* verifier.verify(&block)
Verify ==
    /\ pc = "received"
    /\ result' = verify(store, skip_pow, skip_sig, now, block)
    /\ store' = store_after_verify(store, block)
    /\ pc' = "verified"
    /\ UNCHANGED <<skip_pow, skip_sig, now, block, verify_state>>
    /\ UNCHANGED <<acceptor_vars, filter_vars, extra_vars>>

\* the caller takes the result; the verifier is ready for the next block
Return ==
    /\ pc \in {"verified", "continued"}
    /\ block' = NoBlock
    /\ result' = NoResult
    /\ pc' = "idle"
    /\ UNCHANGED <<store, skip_pow, skip_sig, now, verify_state>>
    /\ UNCHANGED <<acceptor_vars, filter_vars, extra_vars>>

Next == Receive \/ Verify \/ Return

Spec == Init /\ [][Next]_vars

----------------------------------------------------------------------------
(* The verifier on large amounts.  An output value is a u64 and no check   *)
(* of verify bounds it; test_data::block_builder builds outputs of any     *)
(* value.  The sums of ordered_verify are those of a build without         *)
(* overflow checks, which wrap; a build with them stops at the same        *)
(* addition.                                                               *)

\* 2^63 and 2^64 - 1
Half64 == <<9, 223372036, 854775808>>

Max64 == <<18, 446744073, 709551615>>

\* the store with one more transaction, of three large outputs
FeeStore ==
    [InitialStore EXCEPT !.txs =
        [h \in DOMAIN InitialStore.txs \cup {"sx"} |->
            IF h = "sx"
            THEN [tx |-> Tx("sx", <<>>, <<Half64, Half64, Max64>>, 0),
                  meta |-> [height |-> 0, coinbase |-> FALSE,
                            spent |-> <<FALSE, FALSE, FALSE>>]]
            ELSE InitialStore.txs[h]]]

\* unspent outputs of the store, each referenced at most once by a block
FeeOutPoints == {<<"s1", 0>>, <<"sx", 0>>, <<"sx", 1>>, <<"sx", 2>>}

FeeInputs ==
    {<<Input(o[1], o[2])>> : o \in FeeOutPoints}
        \cup {<<Input(oq[1][1], oq[1][2]), Input(oq[2][1], oq[2][2])>> :
                oq \in {pair \in FeeOutPoints \X FeeOutPoints : pair[1] # pair[2]}}

FeeOutputs == {<<>>, <<Sat(1)>>, <<Sat(3)>>, <<Max64>>}

FeeCoinbaseOutputs == {<<Reward>>, <<AmtPlus(Reward, Sat(1))>>, <<Max64>>}

\* blocks on the best block: one transaction after the coinbase, or two
\* that refer to different outputs
FeeTxs ==
    {<<Tx("t1", ins, outs, 0)>> : ins \in FeeInputs, outs \in FeeOutputs}
        \cup {<<Tx("t1", ins, outs, 0), Tx("t2", <<Input(o[1], o[2])>>, outs2, 0)>> :
                ins \in FeeInputs, outs \in FeeOutputs,
                o \in FeeOutPoints, outs2 \in {<<>>, <<Sat(1)>>}}

Disjoint(txs) ==
    Len(txs) = 2 =>
        \A k \in 1..Len(txs[1].inputs) : txs[1].inputs[k] # txs[2].inputs[1]

FeeBlocks ==
    {GoodBlock("b_tip", <<Coinbase(couts, 0, 2)>> \o txs) :
        couts \in FeeCoinbaseOutputs, txs \in {ftxs \in FeeTxs : Disjoint(ftxs)}}

\* ChainVerifier::new(store) and a block received
InitFees ==
    /\ store = FeeStore
    /\ skip_pow \in BOOLEAN
    /\ skip_sig \in BOOLEAN
    /\ now = Clock
    /\ verify_state = 0
    /\ block \in FeeBlocks
    /\ result = NoResult
    /\ pc = "received"
    /\ AcceptorIdle
    /\ FilterIdle
    /\ ExtraIdle

NextFees == Verify \/ Return

SpecFees == InitFees /\ [][NextFees]_vars

----------------------------------------------------------------------------
(* impl ContinueVerify for ChainVerifier *)

\* the thread panics: the call does not return
Panicked == Res("Panic", "")

\* block.transactions().iter().skip(n).enumerate() with verify_transaction
\* of each: the transactions from position pos (0-based) on, idx counting
\* from the first of them
RECURSIVE continue_transactions(_, _, _, _, _)
continue_transactions(s, skipsig, blk, pos, idx) ==
    IF pos + 1 > Len(blk.transactions) THEN <<>>
    ELSE
    LET checked == verify_transaction(s, skipsig, blk, blk.transactions[pos + 1])
    IN  IF checked # TxOk THEN <<ErrTransaction(idx, checked)>>
        ELSE continue_transactions(s, skipsig, blk, pos + 1, idx + 1)

\* state - 1 on a usize.  For state = 0 a build with overflow checks panics
\* and a build without them gets usize::MAX, which skips every transaction.
skipped(blk, state, overflow_checks) ==
    IF state > 0 THEN <<state - 1>>
    ELSE IF overflow_checks THEN <<>>
    ELSE <<Len(blk.transactions)>>

\* self.store.block(BlockRef::Hash(..)) is Some
store_block_known(s, h) == h \in DOMAIN s.blocks

\* ChainVerifier::continue_verify
continue_verify(s, skipsig, blk, state, overflow_checks) ==
    LET skip == skipped(blk, state, overflow_checks)
    IN  IF skip = <<>> THEN Panicked
        ELSE
        LET checked == continue_transactions(s, skipsig, blk, skip[1], 0)
        IN  IF checked # <<>> THEN checked[1]
            ELSE IF ~store_block_known(s, blk.header.previous_header_hash)
            THEN Ok("Orphan")
            ELSE Ok("Main")

\* ChainVerifier::new(store); the state the caller will continue from
InitContinue ==
    /\ store = InitialStore
    /\ skip_pow \in BOOLEAN
    /\ skip_sig \in BOOLEAN
    /\ now = Clock
    /\ verify_state \in 0..(MaxTxs + 1)
    /\ block = NoBlock
    /\ result = NoResult
    /\ pc = "idle"
    /\ AcceptorIdle
    /\ FilterIdle
    /\ ExtraIdle

\* verifier.continue_verify(&block, state), on a build with or without
\* overflow checks
ContinueVerify ==
    /\ pc = "received"
    /\ \E overflow_checks \in BOOLEAN :
           result' = continue_verify(store, skip_sig, block, verify_state, overflow_checks)
    /\ pc' = "continued"
    /\ UNCHANGED <<store, skip_pow, skip_sig, now, block, verify_state>>
    /\ UNCHANGED <<acceptor_vars, filter_vars, extra_vars>>

NextContinue == Receive \/ ContinueVerify \/ Return

SpecContinue == InitContinue /\ [][NextContinue]_vars

----------------------------------------------------------------------------
(* What the claims speak of, read off the block, the store and the result *)

Verified == pc = "verified"

Accepted == Verified /\ result.tag = "Ok" /\ result.kind \in {"Main", "Side"}

Location == accepted_location(store, block.header)

Located == Location.kind \in {"Main", "Side"}

\* positions (0-based, as in Error::Transaction) of the non-coinbase transactions
Positions == 1..(Len(block.transactions) - 1)

TxAt(i) == block.transactions[i + 1]

\* the inputs of the transactions after the first: <<position, input number>>
SpendingInputs ==
    {<<i, k>> : i \in Positions, k \in 1..MaxInputs + 1} \cap
    UNION {{<<i, k>> : k \in 1..Len(TxAt(i).inputs)} : i \in Positions}

InputAt(ik) == TxAt(ik[1]).inputs[ik[2]]

InStore(h) == h \in DOMAIN store.txs

IsTxError(i, e) ==
    /\ result.tag = "Err" /\ result.kind = "Transaction"
    /\ result.index = i /\ result.txerr = e

\* the spent bit of the outpoint in the transaction meta of the store
SpentInStore(h, index) ==
    /\ InStore(h)
    /\ index + 1 \in DOMAIN store.txs[h].meta.spent
    /\ store.txs[h].meta.spent[index + 1]

\* C1: every output is consumed at most once: an accepted (Main or Side)
\* block has no input after the coinbase that references an output whose
\* spent bit is set in the store, and no two inputs with the same outpoint.
C1_SpentOnce ==
    Accepted =>
        /\ \A ik \in SpendingInputs :
               ~SpentInStore(InputAt(ik).prev_hash, InputAt(ik).prev_index)
        /\ \A ik, jl \in SpendingInputs :
               ik # jl =>
                   \/ InputAt(ik).prev_hash # InputAt(jl).prev_hash
                   \/ InputAt(ik).prev_index # InputAt(jl).prev_index

\* C2: in an accepted (Main or Side) block every input whose referenced
\* transaction is not in the store references a non-coinbase transaction
\* placed earlier in the same block; a reference to a later transaction or
\* to the coinbase of the block is never accepted.
C2_EarlierInBlock ==
    Accepted =>
        \A ik \in SpendingInputs :
            ~InStore(InputAt(ik).prev_hash) =>
                \E j \in Positions :
                    /\ j < ik[1]
                    /\ TxAt(j).hash = InputAt(ik).prev_hash
                    /\ ~is_coinbase(TxAt(j))

\* the checks of verify on the header and on the shape of the coinbase pass
HeaderPass ==
    /\ block.transactions # <<>>
    /\ skip_pow \/ block.header.pow_ok
    /\ block.header.time <= now + BLOCK_MAX_FUTURE
    /\ block.header.merkle_root_hash = block_merkle_root(block)
    /\ is_coinbase(block.transactions[1])
    /\ block.transactions[1].inputs[1].script_len \in 2..100

\* every script of the block can be counted
SigopsCountable == \A i \in 1..Len(block.transactions) : block.transactions[i].sigops >= 0

\* signature operations of the transactions at positions 0..i
RECURSIVE SigopsThrough(_)
SigopsThrough(i) == IF i < 0 THEN 0 ELSE TxAt(i).sigops + SigopsThrough(i - 1)

TotalSigops == SigopsThrough(Len(block.transactions) - 1)

\* the parent lookup, output range and script checks of one transaction pass
TransactionPasses(i) == verify_transaction(store, skip_sig, block, TxAt(i)) = TxOk

\* C3: when the header and coinbase checks pass, all scripts are countable
\* and every transaction passes its own checks, verify returns
\* Err(MaximumSigops) exactly when the signature operations of all
\* transactions, coinbase included, sum to more than 20000 (also for a
\* block of the coinbase alone).
C3_SigopLimit ==
    (Verified /\ HeaderPass /\ SigopsCountable /\ \A i \in Positions : TransactionPasses(i))
        => ((result = Err("MaximumSigops")) <=> (TotalSigops > MAX_BLOCK_SIGOPS))

\* the stateless pass: header, coinbase, sigop limit and per-transaction checks
StatelessPass ==
    /\ HeaderPass
    /\ SigopsCountable
    /\ \A i \in Positions :
           TransactionPasses(i) /\ SigopsThrough(i) <= MAX_BLOCK_SIGOPS

\* the input spends a coinbase of the store that is not 100 blocks deep at
\* the height of the block
Immature(inp) ==
    /\ InStore(inp.prev_hash)
    /\ store.txs[inp.prev_hash].meta.coinbase
    /\ Location.number < store.txs[inp.prev_hash].meta.height + COINBASE_MATURITY

\* the output an input refers to, where the stateful pass finds one
Referenced(inp) == reference_transaction(store, block, inp.prev_hash)

Resolves(inp) ==
    /\ Referenced(inp) # <<>>
    /\ inp.prev_index >= 0
    /\ inp.prev_index < Len(Referenced(inp)[1].outputs)

InputClean(inp) == ~Immature(inp) /\ Resolves(inp)

\* sum of the values referenced by the first k inputs, without wrapping
RECURSIVE ClaimedBy(_, _)
ClaimedBy(tx, k) ==
    IF k = 0 THEN Zero
    ELSE AmtPlus(ClaimedBy(tx, k - 1),
                 Referenced(tx.inputs[k])[1].outputs[tx.inputs[k].prev_index + 1])

Claimed(i) == ClaimedBy(TxAt(i), Len(TxAt(i).inputs))

\* sum of the output values, without wrapping
RECURSIVE Total(_)
Total(outs) == IF outs = <<>> THEN Zero ELSE AmtPlus(Head(outs), Total(Tail(outs)))

AllResolve(i) == \A k \in 1..Len(TxAt(i).inputs) : Resolves(TxAt(i).inputs[k])

TxClean(i) ==
    /\ \A k \in 1..Len(TxAt(i).inputs) : InputClean(TxAt(i).inputs[k])
    /\ ~AmtLess(Claimed(i), Total(TxAt(i).outputs))

\* the stateful pass reaches input k of the transaction at position i
Reached(i, k) ==
    /\ StatelessPass
    /\ Located
    /\ \A j \in Positions : j < i => TxClean(j)
    /\ \A l \in 1..(k - 1) : InputClean(TxAt(i).inputs[l])

\* C4: coinbase maturity.  A block located at height H with an input that
\* spends a store coinbase of height h with H < h + 100 is never accepted,
\* and fails with Transaction(i, Maturity) when the stateful pass reaches
\* that input; verify fails with Transaction(i, Maturity) only for a
\* located block whose transaction i has such an input, never when
\* H >= h + 100 for the coinbases it spends.
C4_Maturity ==
    Verified =>
        /\ \A ik \in SpendingInputs :
               (Located /\ Immature(InputAt(ik))) =>
                   /\ ~Accepted
                   /\ Reached(ik[1], ik[2]) => IsTxError(ik[1], "Maturity")
        /\ result.txerr = "Maturity" =>
               /\ Located
               /\ result.index \in Positions
               /\ \E k \in 1..Len(TxAt(result.index).inputs) :
                      Immature(TxAt(result.index).inputs[k])

\* a block at height h + 99 fails with Maturity, h the height of the coinbase
C4_Witness ==
    /\ Verified
    /\ IsTxError(1, "Maturity")
    /\ Immature(TxAt(1).inputs[1])
    /\ Location.number = store.txs[TxAt(1).inputs[1].prev_hash].meta.height + 99

\* every transaction after the coinbase passes both passes
AllTransactionsPass == StatelessPass /\ Located /\ \A i \in Positions : TxClean(i)

\* sum over the transactions at positions 1..i of claimed value less outputs
RECURSIVE FeesThrough(_)
FeesThrough(i) ==
    IF i < 1 THEN Zero
    ELSE AmtPlus(FeesThrough(i - 1), AmtMinus(Claimed(i), Total(TxAt(i).outputs)))

ExpectedMax ==
    AmtPlus(block_reward_satoshi(Location.number), FeesThrough(Len(block.transactions) - 1))

CoinbaseSum == Total(block.transactions[1].outputs)

Overspends(i) == AllResolve(i) /\ AmtLess(Claimed(i), Total(TxAt(i).outputs))

StatefulPass ==
    /\ \A i \in Positions : TxClean(i)
    /\ ~AmtLess(ExpectedMax, CoinbaseSum)

StatefulErrors == {"Maturity", "UnknownReference", "Input", "Overspend"}

\* C7: chain classification.  For a block that passes the stateless and
\* per-transaction checks verify returns Ok(Orphan) exactly when the store
\* has no location for the header; a located block gets Ok(Main) or
\* Ok(Side) after its location when the stateful pass at the located height
\* passes, and an error of the stateful pass otherwise; an orphan is not
\* put through the stateful pass.  No block gets a chain other than the
\* one of its location.
C7_Classification ==
    Verified =>
        /\ StatelessPass =>
               /\ (result = Ok("Orphan")) <=> (Location.kind = "None")
               /\ Located =>
                      IF StatefulPass THEN result = Ok(Location.kind)
                      ELSE /\ result.tag = "Err"
                           /\ \/ result.kind = "CoinbaseOverspend"
                              \/ result.kind = "Transaction" /\ result.txerr \in StatefulErrors
        /\ result = Ok("Main") => Location.kind = "Main"
        /\ result = Ok("Side") => Location.kind = "Side"
        /\ result = Ok("Orphan") => Location.kind = "None"
        /\ result.tag = "Ok" => StatelessPass

\* an orphan that the stateful pass would have rejected is returned as Orphan
C7_Witness ==
    /\ Verified
    /\ result = Ok("Orphan")
    /\ Len(block.transactions) > 1
    /\ ~StatefulPass

\* C8: the verifier does not mutate the store: after any sequence of
\* verify calls, whatever their outcomes, the blocks, the transactions with
\* their meta (spent bits) and the best block of the store are those of
\* the initial store.
C8_StoreUnchanged ==
    /\ store.blocks = InitialStore.blocks
    /\ store.txs = InitialStore.txs
    /\ store.best_block = InitialStore.best_block

\* a block spending a store output was accepted on the main chain and the
\* spent bit of that output is still clear
C8_Witness ==
    /\ Verified
    /\ result = Ok("Main")
    /\ \E ik \in SpendingInputs :
           /\ InputAt(ik).prev_hash = "s1"
           /\ InputAt(ik).prev_index = 0
    /\ ~store.txs["s1"].meta.spent[1]

\* the referenced transaction is neither in the store nor in the block
Unknown(inp) ==
    /\ ~InStore(inp.prev_hash)
    /\ \A j \in 1..Len(block.transactions) : block.transactions[j].hash # inp.prev_hash

\* the outputs of the parent transaction of a known input: the store first
ParentOutputs(inp) ==
    IF InStore(inp.prev_hash) THEN store.txs[inp.prev_hash].tx.outputs
    ELSE LET j == CHOOSE j \in 1..Len(block.transactions) :
                      /\ block.transactions[j].hash = inp.prev_hash
                      /\ \A l \in 1..(j - 1) : block.transactions[l].hash # inp.prev_hash
         IN  block.transactions[j].outputs

\* the per-transaction checks of one input pass
InputPasses(inp) ==
    /\ ~Unknown(inp)
    /\ inp.prev_index >= 0
    /\ inp.prev_index < Len(ParentOutputs(inp))
    /\ skip_sig \/ inp.script_ok

\* the per-transaction loop of verify reaches input k of the transaction at
\* position i
StatelessReached(i, k) ==
    /\ HeaderPass
    /\ block.transactions[1].sigops >= 0
    /\ \A j \in Positions :
           j < i => /\ TxAt(j).sigops >= 0
                    /\ SigopsThrough(j) <= MAX_BLOCK_SIGOPS
                    /\ TransactionPasses(j)
    /\ TxAt(i).sigops >= 0
    /\ SigopsThrough(i) <= MAX_BLOCK_SIGOPS
    /\ \A l \in 1..(k - 1) : InputPasses(TxAt(i).inputs[l])

\* C9: inconclusive reference.  A block with an input after the coinbase
\* whose referenced transaction is neither in the store nor among the
\* transactions of the block is never given Ok (not Orphan either) and
\* fails with Transaction(i, Inconclusive(h)) when the per-transaction loop
\* reaches that input, whatever the location of the block; Inconclusive(h)
\* is returned only for a transaction with such an input referencing h.
C9_Inconclusive ==
    Verified =>
        /\ \A ik \in SpendingInputs :
               Unknown(InputAt(ik)) =>
                   /\ result.tag # "Ok"
                   /\ StatelessReached(ik[1], ik[2]) =>
                          result = ErrTransaction(ik[1],
                                       TxErr("Inconclusive", InputAt(ik).prev_hash, 0))
        /\ result.txerr = "Inconclusive" =>
               /\ result.index \in Positions
               /\ \E k \in 1..Len(TxAt(result.index).inputs) :
                      /\ Unknown(TxAt(result.index).inputs[k])
                      /\ TxAt(result.index).inputs[k].prev_hash = result.hash

\* a block with an unknown parent fails with Inconclusive
C9_Witness ==
    /\ Verified
    /\ Location.kind = "None"
    /\ IsTxError(1, "Inconclusive")
    /\ Unknown(TxAt(1).inputs[1])

\* C10: timestamp boundary.  A non-empty block that passes proof-of-work
\* gets Err(Timestamp) exactly when header.time is more than 7200 seconds
\* after the current time (now + 7200 is not rejected for its timestamp,
\* now + 7201 is); no other block gets Err(Timestamp).
C10_Timestamp ==
    Verified =>
        /\ (block.transactions # <<>> /\ (skip_pow \/ block.header.pow_ok)) =>
               ((result = Err("Timestamp")) <=>
                    (block.header.time > now + BLOCK_MAX_FUTURE))
        /\ result = Err("Timestamp") =>
               /\ block.transactions # <<>>
               /\ skip_pow \/ block.header.pow_ok

\* a block 7201 seconds ahead is rejected for its timestamp
C10_Witness ==
    /\ Verified
    /\ block.header.time = now + BLOCK_MAX_FUTURE + 1
    /\ result = Err("Timestamp")

\* the checks of verify that come before the coinbase checks pass
BeforeCoinbasePass ==
    /\ block.transactions # <<>>
    /\ skip_pow \/ block.header.pow_ok
    /\ block.header.time <= now + BLOCK_MAX_FUTURE
    /\ block.header.merkle_root_hash = block_merkle_root(block)

CoinbaseScriptLen == block.transactions[1].inputs[1].script_len

\* C11: coinbase shape.  When the checks before it pass, verify returns
\* Err(Coinbase) exactly when transactions[0] is not a coinbase, and
\* Err(CoinbaseSignatureLength(n)) exactly when transactions[0] is a
\* coinbase whose first input has a script of length n with n < 2 or
\* n > 100 (1 and 101 rejected, 2 and 100 not); neither error is returned
\* for any other block.
C11_CoinbaseShape ==
    Verified =>
        /\ BeforeCoinbasePass =>
               IF ~is_coinbase(block.transactions[1])
               THEN result = Err("Coinbase")
               ELSE IF CoinbaseScriptLen < 2 \/ CoinbaseScriptLen > 100
               THEN result = ErrN("CoinbaseSignatureLength", CoinbaseScriptLen)
               ELSE result.kind \notin {"Coinbase", "CoinbaseSignatureLength"}
        /\ result.kind \in {"Coinbase", "CoinbaseSignatureLength"} => BeforeCoinbasePass

\* a coinbase script of 101 bytes is rejected with its length
C11_Witness ==
    /\ Verified
    /\ result = ErrN("CoinbaseSignatureLength", 101)
    /\ is_coinbase(block.transactions[1])

\* the hashes of the transactions of the block, in block order
TxHashes == [i \in 1..Len(block.transactions) |-> <<block.transactions[i].hash>>]

\* the header commits to the merkle root of the transaction hashes
RootMatches == merkle_root(TxHashes) = block.header.merkle_root_hash

\* C12: a block without transactions gets Err(Empty), and a non-empty block
\* that passes proof-of-work and the timestamp check gets Err(MerkleRoot)
\* exactly when the merkle root of its transaction hashes differs from the
\* root in its header; every Ok result (Main, Side or Orphan) is for a
\* block with at least one transaction and a matching merkle root.
C12_EmptyAndMerkleRoot ==
    Verified =>
        /\ (result = Err("Empty")) <=> (block.transactions = <<>>)
        /\ ( /\ block.transactions # <<>>
             /\ skip_pow \/ block.header.pow_ok
             /\ block.header.time <= now + BLOCK_MAX_FUTURE )
               => ((result = Err("MerkleRoot")) <=> ~RootMatches)
        /\ result = Err("MerkleRoot") => block.transactions # <<>> /\ ~RootMatches
        /\ result.tag = "Ok" => block.transactions # <<>> /\ RootMatches

\* a block of two transactions with a wrong root in its header is rejected
C12_Witness ==
    /\ Verified
    /\ result = Err("MerkleRoot")
    /\ Len(block.transactions) = 2
    /\ ~RootMatches

\* the referenced transaction is known and has no output of that index
OutOfRange(inp) ==
    /\ ~Unknown(inp)
    /\ \/ inp.prev_index = CoinbaseIndex
       \/ inp.prev_index >= Len(ParentOutputs(inp))

\* C13: out-of-range output reference.  A block with an input after the
\* coinbase that references an output index >= the number of outputs of
\* the referenced transaction is never given Ok and fails with
\* Transaction(i, Input(k)) when the per-transaction loop reaches that
\* input; in every Transaction(i, Input(k)) result k is the index, within
\* the transaction at position i, of an input with such a reference.
C13_InputOutOfRange ==
    Verified =>
        /\ \A ik \in SpendingInputs :
               OutOfRange(InputAt(ik)) =>
                   /\ result.tag # "Ok"
                   /\ StatelessReached(ik[1], ik[2]) =>
                          result = ErrTransaction(ik[1], TxErr("Input", "", ik[2] - 1))
        /\ result.txerr = "Input" =>
               /\ result.index \in Positions
               /\ result.n + 1 \in 1..Len(TxAt(result.index).inputs)
               /\ OutOfRange(TxAt(result.index).inputs[result.n + 1])

\* the second input (index 1) references output 2 of a transaction with
\* two outputs: the error names input 1
C13_Witness ==
    /\ Verified
    /\ result = ErrTransaction(1, TxErr("Input", "", 1))
    /\ TxAt(1).inputs[2].prev_hash = "s1"
    /\ TxAt(1).inputs[2].prev_index = 2

\* the transaction at position i (coinbase = 0) has a defect of kind e
Produces(i, e) ==
    LET tx == TxAt(i)
        inputs == {tx.inputs[k] : k \in 1..Len(tx.inputs)}
    IN  CASE e = "SignatureMallformed" -> tx.sigops < 0
          [] e = "Inconclusive" -> \E inp \in inputs : Unknown(inp)
          [] e = "Input" -> \E inp \in inputs : OutOfRange(inp)
          [] e = "Signature" -> ~skip_sig /\ \E inp \in inputs : ~inp.script_ok
          [] e = "Maturity" -> \E inp \in inputs : Immature(inp)
          [] e = "UnknownReference" -> \E inp \in inputs : Referenced(inp) = <<>>
          [] e = "Overspend" -> Overspends(i)
          [] OTHER -> FALSE

\* C14: error index.  Whenever verify returns Transaction(i, e), i is a
\* position of block.transactions (coinbase = 0) and the transaction at
\* that position is the one whose check produced e, for every error kind,
\* the failure to count signature operations included.
C14_ErrorIndex ==
    (Verified /\ result.kind = "Transaction") =>
        /\ result.index \in 0..(Len(block.transactions) - 1)
        /\ Produces(result.index, result.txerr)

\* the positions (0-based) of the transactions whose check fails
Failing == {i \in 0..(Len(checks) - 1) : checks[i + 1] # "ok"}

FirstFailing == CHOOSE i \in Failing : \A j \in Failing : i <= j

\* C15: parallel transaction checks are deterministic.  However the
\* transactions are split into pieces, in whatever order the pieces are
\* folded and in whatever grouping the partial results are combined,
\* check_transactions returns Ok(()) exactly when every check succeeds and
\* otherwise Error::Transaction(i, err) with i the smallest index whose
\* check fails and err the error of that transaction.
C15_LowestIndexWins ==
    apc = "done" =>
        accepted = IF Failing = {} THEN OkUnit
                   ELSE ErrTransaction(FirstFailing,
                                       TxErr(checks[FirstFailing + 1], "", 0))

\* three pieces, two different failures in different pieces: the lower wins
C15_Witness ==
    /\ apc = "done"
    /\ Cardinality(cuts) = 2
    /\ checks = <<"ok", "Overspend", "ok", "Maturity">>
    /\ 2 \in cuts
    /\ accepted = ErrTransaction(1, TxErr("Overspend", "", 0))

\* an input whose parent is known and in range and whose script fails
ScriptFails(inp) == ~Unknown(inp) /\ ~OutOfRange(inp) /\ ~inp.script_ok

\* what verify returns according to the two flags
ChecksNotSkipped ==
    Verified =>
        /\ (~skip_pow /\ block.transactions # <<>> /\ ~block.header.pow_ok)
               => result = Err("Pow")
        /\ ~skip_sig =>
               \A ik \in SpendingInputs :
                   ScriptFails(InputAt(ik)) =>
                       /\ result.tag # "Ok"
                       /\ StatelessReached(ik[1], ik[2]) =>
                              result = ErrTransaction(ik[1], TxErr("Signature", "", ik[2] - 1))
        /\ skip_sig =>
               /\ result.txerr # "Signature"
               /\ \A ik \in SpendingInputs :
                      StatelessReached(ik[1], ik[2]) =>
                          /\ Unknown(InputAt(ik)) => IsTxError(ik[1], "Inconclusive")
                          /\ OutOfRange(InputAt(ik)) => IsTxError(ik[1], "Input")
        /\ skip_pow => result # Err("Pow")

\* C16: the flags skip_pow and skip_sig keep for the whole life of the
\* verifier the values it was built with (false, false from
\* ChainVerifier::new).  With skip_pow false every non-empty block whose
\* header hash misses the target gets Err(Pow); with skip_sig false every
\* failing script the loop reaches gets Transaction(i, Signature(input
\* index)) and no block with a failing script is given Ok; with
\* signatures_skip the parent lookup and the output-range check still run.
C16_NoSkipping ==
    /\ []ChecksNotSkipped
    /\ [][skip_pow' = skip_pow /\ skip_sig' = skip_sig]_vars

\* a verifier built with new alone rejects a failing script
C16_Witness ==
    /\ Verified
    /\ ~skip_pow /\ ~skip_sig
    /\ IsTxError(1, "Signature")
    /\ ~TxAt(1).inputs[1].script_ok

----------------------------------------------------------------------------
(* The relay filter: matching and updating.                                *)

\* the call of match_update_transaction that has just returned or panicked,
\* made with a filter loaded
Matched == last.op = "match" /\ before # <<>>

\* the filter of zero bits with hash functions holds nothing: the lookup
\* does not return
Holds(b, data) == ~Panics(b) /\ contains(b, data)

\* the four ways a transaction is relevant to the bits b
HoldsHash(b, transaction) == Holds(b, transaction.hash)

HoldsOutputData(b, transaction) ==
    \E oi \in 1..Len(transaction.outputs) :
        \E di \in 1..Len(transaction.outputs[oi].script_pubkey.data) :
            Holds(b, transaction.outputs[oi].script_pubkey.data[di])

HoldsSpentOutPoint(b, transaction) ==
    \E i \in 1..Len(transaction.inputs) :
        Holds(b, serialize_outpoint(transaction.inputs[i].previous_output))

HoldsInputData(b, transaction) ==
    \E i \in 1..Len(transaction.inputs) :
        \E di \in 1..Len(transaction.inputs[i].script_sig.data) :
            Holds(b, transaction.inputs[i].script_sig.data[di])

\* C17: with a filter loaded, match_update_transaction returns true exactly
\* when the filter as it was before the call holds the hash of the
\* transaction, a data element of an output script, the serialized previous
\* outpoint of an input, or a data element of an input script; what the call
\* inserts does not change what it returns.
C17_BloomMatching ==
    Matched =>
        (last.ret = "true" <=>
            \/ HoldsHash(before[1], last.transaction)
            \/ HoldsOutputData(before[1], last.transaction)
            \/ HoldsSpentOutPoint(before[1], last.transaction)
            \/ HoldsInputData(before[1], last.transaction))

\* a call that matched on output data and updated the filter, where a data
\* element of an input script is held only by the bits after the call
C17_Witness ==
    /\ Matched
    /\ last.ret = "true"
    /\ bloom # before
    /\ ~HoldsInputData(before[1], last.transaction)
    /\ HoldsInputData(bloom[1], last.transaction)

\* the filter flags ask for the outpoint of an output of this script
UpdateWanted(flags, script) ==
    \/ flags = "All"
    \/ /\ flags = "PubKeyOnly"
       /\ script.pay_to_public_key \/ script.multisig

\* the positions (from 1) of the bits of data in the filter b
BitsOf(b, data) ==
    {murmur_hash(b, data, idx) + 1 : idx \in 0..(b.hash_functions_num - 1)}

\* b with the bits of every byte string of the set also set
WithBits(b, strings) ==
    [b EXCEPT !.filter =
        [i \in 1..Len(b.filter) |->
            b.filter[i] \/ \E data \in strings : i \in BitsOf(b, data)]]

OutPointAt(transaction, oi) == serialize_outpoint(OutPoint(transaction.hash, oi - 1))

\* The outputs whose outpoint the call is to insert, output after output:
\* an output counts when the flags ask for it and one of the data elements
\* of its script is held by the filter as it is when the output is examined,
\* that is with the outpoints of the outputs before it already inserted.
ExpectedOutputs(b, flags, transaction) ==
    LET upto[n \in 0..Len(transaction.outputs)] ==
            IF n = 0 THEN {}
            ELSE LET script == transaction.outputs[n].script_pubkey
                     examined ==
                         WithBits(b, {OutPointAt(transaction, oi) : oi \in upto[n - 1]})
                 IN  IF /\ UpdateWanted(flags, script)
                        /\ \E di \in 1..Len(script.data) : contains(examined, script.data[di])
                     THEN upto[n - 1] \cup {n}
                     ELSE upto[n - 1]
    IN  upto[Len(transaction.outputs)]

ExpectedOutPoints(b, flags, transaction) ==
    {OutPointAt(transaction, oi) : oi \in ExpectedOutputs(b, flags, transaction)}

\* the transaction spends an outpoint of the set
Spends(transaction, outpoints) ==
    \E i \in 1..Len(transaction.inputs) :
        serialize_outpoint(transaction.inputs[i].previous_output) \in outpoints

\* the bits after a call of match_update_transaction on a loaded filter
BitsAsExpected ==
    Matched =>
        IF last.ret = "panic" THEN bloom = before
        ELSE /\ bloom = <<WithBits(before[1],
                            ExpectedOutPoints(before[1], filter_flags, last.transaction))>>
             /\ filter_flags = "None" => bloom = before
             /\ ~HoldsOutputData(before[1], last.transaction) => bloom = before

\* a step of match_update_transaction on a loaded filter: the outpoints it
\* inserts, and what it returns for a spender of an outpoint inserted before
UpdateStep ==
    (last'.op = "match" /\ op_count' # op_count /\ bloom # <<>>) =>
        /\ last'.ret # "panic" =>
               updated' = updated \cup
                   ExpectedOutPoints(bloom[1], filter_flags, last'.transaction)
        /\ Spends(last'.transaction, updated) => last'.ret = "true"

\* C18: match_update_transaction inserts the outpoint (transaction hash,
\* output index) exactly for the outputs whose script has a data element held
\* by the filter when the output is examined, and only when the flags are All,
\* or PubKeyOnly with a pay-to-public-key or multisig script; with flags None,
\* and when no data element of an output script is held, the bits stay as
\* they were; a later transaction that spends an inserted outpoint matches.
C18_UpdateOnMatch == []BitsAsExpected /\ [][UpdateStep]_vars

\* an outpoint inserted under PubKeyOnly for the pay-to-public-key output and
\* not for the other output; the spender of the outpoint then matches, and
\* by nothing else
C18_Witness ==
    /\ Matched
    /\ filter_flags = "PubKeyOnly"
    /\ last.transaction = TxB
    /\ last.ret = "true"
    /\ OutPointAt(TxA, 2) \in updated
    /\ OutPointAt(TxA, 1) \notin updated
    /\ ~HoldsHash(before[1], TxB)

----------------------------------------------------------------------------
(* The relay filter: data added with filteradd.                            *)

\* the four ways a transaction carries the byte string
Carries(transaction, data) ==
    \/ transaction.hash = data
    \/ \E oi \in 1..Len(transaction.outputs) :
           \E di \in 1..Len(transaction.outputs[oi].script_pubkey.data) :
               transaction.outputs[oi].script_pubkey.data[di] = data
    \/ \E i \in 1..Len(transaction.inputs) :
           serialize_outpoint(transaction.inputs[i].previous_output) = data
    \/ \E i \in 1..Len(transaction.inputs) :
           \E di \in 1..Len(transaction.inputs[i].script_sig.data) :
               transaction.inputs[i].script_sig.data[di] = data

\* C19: data that add has inserted into the loaded filter (or that the
\* update on a match has inserted) is held by the filter, and match_update_transaction returns true for every transaction
\* that carries it as its hash, as a data element of an output script, as the
\* serialized previous outpoint of an input or as a data element of an input
\* script, whatever calls of add and match_update_transaction came in
\* between, until the next load.
C19_NoFalseNegatives ==
    bloom # <<>> =>
        /\ \A data \in added \cup updated : contains(bloom[1], data)
        /\ \A data \in added :
               (last.op = "match" /\ Carries(last.transaction, data)) => last.ret = "true"

\* the signature of the input script was added, other calls followed, and the
\* transaction then matched by that data element alone
C19_Witness ==
    /\ Matched
    /\ op_count >= 4
    /\ added = {DataS}
    /\ last.transaction = TxA
    /\ last.ret = "true"
    /\ ~HoldsHash(before[1], TxA)
    /\ ~HoldsOutputData(before[1], TxA)
    /\ ~HoldsSpentOutPoint(before[1], TxA)

----------------------------------------------------------------------------
(* The relay filter: the positions of the bits.                            *)

\* (k * 0xFBA4C795 + tweak) mod 2^32, by long multiplication on the halves
ExpectedSeed(k, tweak) ==
    LET low == k * SEED_OFFSET[2] + tweak[2]
        high == k * SEED_OFFSET[1] + tweak[1] + (low \div Half)
    IN  <<high % Half, low % Half>>

\* murmur3_32 under the expected seeds
ExpectedHashes ==
    [data \in HashedData, k \in HashIndexes, tweak \in Tweaks |->
        murmur3_32(data, ExpectedSeed(k, tweak))]

\* the positions (from 1) of data in the bits of b
ExpectedPositions(b, data) ==
    {mod32(ExpectedHashes[data, k, b.tweak], Len(b.filter)) + 1 :
        k \in 0..(b.hash_functions_num - 1)}

AllSet(b, data) == \A i \in ExpectedPositions(b, data) : b.filter[i]

ElementsOf(script) == {script.data[di] : di \in 1..Len(script.data)}

\* the byte strings match_update_transaction looks up for the transaction
LookedUp(transaction) ==
    {transaction.hash}
        \cup UNION {ElementsOf(transaction.outputs[oi].script_pubkey) :
                       oi \in 1..Len(transaction.outputs)}
        \cup {serialize_outpoint(transaction.inputs[i].previous_output) :
                 i \in 1..Len(transaction.inputs)}
        \cup UNION {ElementsOf(transaction.inputs[i].script_sig) :
                       i \in 1..Len(transaction.inputs)}

\* a filter with bits, or with no hash function: the remainder is defined
Sized(b) == ~Panics(b)

\* C20: the bit used for data by hash function k is
\* murmur3_32(data, (k * 0xFBA4C795 + tweak) mod 2^32) mod the number of bits
\* of the filter; contains(data) is the conjunction of exactly those bits
\* (seen in the filter itself and in what a match returns), and insert(data)
\* sets exactly those bits and changes no other.
C20_HashPositions ==
    /\ (bloom # <<>> /\ Sized(bloom[1])) =>
           \A data \in HashedData : contains(bloom[1], data) <=> AllSet(bloom[1], data)
    /\ (Matched /\ Sized(before[1])) =>
           (last.ret = "true" <=>
               \E data \in LookedUp(last.transaction) : AllSet(before[1], data))
    /\ (last.op = "add" /\ before # <<>> /\ Sized(before[1])) =>
           /\ Len(bloom[1].filter) = Len(before[1].filter)
           /\ \A i \in 1..Len(bloom[1].filter) :
                  bloom[1].filter[i] <=>
                      (before[1].filter[i] \/ i \in ExpectedPositions(before[1], last.data))

\* an add under three hash functions and the tweak 0xFFFFFFFF, where the
\* product and the sum of the seed both pass 2^32, that set three bits
C20_Witness ==
    /\ last.op = "add"
    /\ before # <<>>
    /\ before[1].hash_functions_num = 3
    /\ before[1].tweak = U32(65535, 65535)
    /\ Len(before[1].filter) = 32
    /\ Cardinality(ExpectedPositions(before[1], last.data)) = 3
    /\ \A i \in ExpectedPositions(before[1], last.data) :
           ~before[1].filter[i] /\ bloom[1].filter[i]

----------------------------------------------------------------------------
(* The relay filter: a connection without a filter.                        *)

\* what the last call left, for each of the four calls
FilterPresence ==
    /\ (last.op = "match" /\ before = <<>>) => (last.ret = "true" /\ bloom = <<>>)
    /\ (last.op = "add" /\ before = <<>>) => (last.ret = "unit" /\ bloom = <<>>)
    /\ last.op = "clear" => bloom = <<>>
    /\ last.op = "load" =>
           \E message \in FilterLoads :
               /\ bloom = <<[filter |-> from_bytes(message.filter),
                            hash_functions_num |-> message.hash_functions,
                            tweak |-> message.tweak]>>
               /\ filter_flags = message.flags

\* a step leaves the connection without a filter exactly when it is a clear,
\* or when there was none and the step is not a load
FilterPresenceStep ==
    op_count' # op_count =>
        (bloom' = <<>> <=> (last'.op = "clear" \/ (bloom = <<>> /\ last'.op # "load")))

\* C21: a connection whose filter was never loaded, or was cleared last,
\* matches every transaction; add without a filter is ignored and leaves it
\* so; load replaces the bits and the flags by those of its message, whatever
\* was added before.
C21_NoFilterRelaysAll == []FilterPresence /\ [][FilterPresenceStep]_vars

\* a load over a filter of 32 bits, some of them set by earlier inserts,
\* that left a filter of 32 clear bits
C21_Witness ==
    /\ last.op = "load"
    /\ before # <<>>
    /\ Len(before[1].filter) = 32
    /\ \E i \in 1..32 : before[1].filter[i]
    /\ bloom # <<>>
    /\ Len(bloom[1].filter) = 32
    /\ \A i \in 1..32 : ~bloom[1].filter[i]

----------------------------------------------------------------------------
(* The synchronization node: what each request leaves behind.              *)

\* the step is a call of the method of that name
NodeStep(op) == node_ops' # node_ops /\ node_last'.op = op

\* the step of on_peer_getheaders made while the client is synchronizing
IgnoredWhileSynchronizing ==
    (NodeStep("getheaders") /\ synchronizing) =>
        /\ executor_tasks' =
               Append(executor_tasks,
                      [task |-> "Ignore", peer |-> node_last'.peer, id |-> node_last'.id])
        /\ server_tasks' = server_tasks
        /\ parked' = parked

\* C22: a getheaders request handled while the client is synchronizing makes
\* the node execute exactly one task, Ignore(peer, id) with the id of the
\* request; no task is added to the server and nothing is parked with the
\* client.
C22_GetHeadersWhileSynchronizing == [][IgnoredWhileSynchronizing]_vars

\* a request ignored while synchronizing, after an earlier one was parked
C22_Witness ==
    /\ node_last.op = "getheaders"
    /\ synchronizing
    /\ Len(parked) = 1
    /\ server_tasks = <<>>
    /\ executor_tasks = <<[task |-> "Ignore", peer |-> node_last.peer, id |-> 2]>>
    /\ node_last.id = 2
    /\ parked[1].task.id = 1

\* a step of on_peer_getheaders leaves one disposition of the request: the
\* Ignore task executed, or the headers task parked with the client; the
\* server queue is not written
OneDisposition ==
    NodeStep("getheaders") =>
        /\ server_tasks' = server_tasks
        /\ \/ /\ executor_tasks' =
                    Append(executor_tasks,
                           [task |-> "Ignore", peer |-> node_last'.peer,
                            id |-> node_last'.id])
              /\ parked' = parked
           \/ /\ executor_tasks' = executor_tasks
              /\ Len(parked') = Len(parked) + 1
              /\ parked'[Len(parked')].peer = node_last'.peer
              /\ parked'[Len(parked')].task.task = "ServeGetHeaders"
              /\ parked'[Len(parked')].task.id = node_last'.id
              /\ SubSeq(parked', 1, Len(parked)) = parked

\* C23: when the client is not synchronizing, on_peer_getheaders never adds
\* the headers task to the server itself: it parks one task carrying the id
\* of the request with the client, and the task reaches the server when the
\* client fires it; every request ends in exactly one disposition, an Ignore
\* or one parked task.
C23_DelayedGetHeaders == [][OneDisposition]_vars

\* the step of start_sync_session
RequestsHeaders ==
    NodeStep("start_sync_session") =>
        /\ executor_tasks' =
               Append(executor_tasks,
                      [task |-> "RequestBlocksHeaders", peer |-> node_last'.peer, id |-> 0])
        /\ server_tasks' = server_tasks
        /\ parked' = parked

\* C24: starting the sync session of peer p makes the node execute exactly
\* one task, RequestBlocksHeaders(p), for p and for no other peer, and adds
\* no task to the server.
C24_StartSyncSession == [][RequestsHeaders]_vars

\* the session of the first of two peers is started
C24_Witness ==
    /\ node_last.op = "start_sync_session"
    /\ node_last.peer = 1
    /\ node_peer_counter = 2
    /\ executor_tasks = <<[task |-> "RequestBlocksHeaders", peer |-> 1, id |-> 0]>>
    /\ server_tasks = <<>>

\* the step of on_peer_getdata
ServesGetData ==
    NodeStep("getdata") =>
        /\ executor_tasks' = executor_tasks
        /\ parked' = parked
        /\ IF node_last'.served = <<>>
           THEN server_tasks' = server_tasks
           ELSE server_tasks' =
                    Append(server_tasks,
                           [peer |-> node_last'.peer,
                            task |-> [task |-> "ServeGetData",
                                      of |-> node_last'.message.inventory,
                                      id |-> 0]])

\* C25: on_peer_getdata(p, GetData{inventory}) adds to the server tasks for
\* p only, the one task ServeGetData(inventory) with the requested items in
\* the order of the request, and executes no task of the synchronization;
\* when serve_getdata gives no task, nothing is added.
C25_ServeGetData == [][ServesGetData]_vars

\* the second peer asked for a transaction and a block, after a request
\* that gave no task
C25_Witness ==
    /\ node_last.op = "getdata"
    /\ node_last.peer = 2
    /\ Len(node_last.message.inventory) = 2
    /\ node_ops = 4
    /\ executor_tasks = <<>>
    /\ server_tasks = <<[peer |-> 2,
                         task |-> [task |-> "ServeGetData",
                                   of |-> node_last.message.inventory, id |-> 0]]>>

----------------------------------------------------------------------------
(* The registry of the connections.                                        *)

\* the ids taken from the counter by the calls of store under way
IdsUnderWay == {conn_calls[t].id : t \in {u \in ConnThreads : conn_calls[u].pc = "insert"}}

\* C26: every call of store takes its id from a counter that starts at 0, so
\* the channels returned by any calls of store, one after the other or at
\* the same time, have ids that differ from each other; the session of a
\* channel has the id that is the key of the channel in the map; an id is
\* not given again after remove or remove_all.
C26_UniqueIds ==
    /\ \A i, j \in 1..Len(stored) : stored[i].id = stored[j].id => i = j
    /\ \A i \in 1..Len(stored) : stored[i].id \notin IdsUnderWay
    /\ Cardinality(IdsUnderWay) =
           Cardinality({t \in ConnThreads : conn_calls[t].pc = "insert"})
    /\ {stored[i].id : i \in 1..Len(stored)} \cup IdsUnderWay = 0..(conn_peer_counter - 1)
    /\ \A key \in DOMAIN channels :
           channels[key].id = key /\ channels[key].session = key

\* three channels stored, two of them by calls that overlapped (the id taken
\* later was inserted first), the last one after channel 0 was removed
C26_Witness ==
    /\ Len(stored) = 3
    /\ stored[1].id = 1
    /\ stored[2].id = 0
    /\ stored[3].id = 2
    /\ DOMAIN channels = {1, 2}

\* a step of the loop over the incoming messages
HandledStep ==
    (conn_ops' # conn_ops /\ conn_last'.op = "handle") =>
        /\ conn_last'.outcome = "Err" =>
               /\ DOMAIN channels' = DOMAIN channels \ {conn_last'.id}
               /\ \A key \in DOMAIN channels' : channels'[key] = channels[key]
        /\ conn_last'.outcome = "Ok" => channels' = channels
        /\ incoming' = "running"

\* C27: when the handling of a message of peer p fails, the loop removes the
\* channel of p from the registry and no other channel; a message handled
\* with success removes nothing; the loop goes on with the next messages.
C27_ErrorDisconnectsPeer == [][HandledStep]_vars

\* the message of peer 0 failed and peer 0 was removed, then a message of
\* peer 1 was handled
C27_Witness ==
    /\ Len(handled) = 2
    /\ handled[1] = <<0, "Err">>
    /\ handled[2] = <<1, "Ok">>
    /\ DOMAIN channels = {1}
    /\ incoming = "running"

----------------------------------------------------------------------------
\* the order of the handlers of the two kinds of session
HandlerOrder ==
    IF session_state = "normal"
    THEN <<"ping", "addr", "sync">>
    ELSE <<"ping", "addr", "seednode">>

SessionReturned == session_pc = "idle" /\ session_call.op # "none"

FailingHandlers == {i \in 1..Len(outcomes) : outcomes[i] # "Ok"}

InListOrder ==
    /\ Len(received) <= Len(HandlerOrder)
    /\ Len(outcomes) = Len(received)
    /\ \A i \in 1..Len(received) :
          /\ received[i].handler = HandlerOrder[i]
          /\ received[i].op = session_call.op
          /\ received[i].command = session_call.command
          /\ received[i].payload = session_call.payload

\* C28: a call on the session reaches the handlers one at a time in the order
\* of the list (ping, addr, then sync for a normal session and seednode for a
\* seednode session), each with the command and the payload of the call;
\* on_message calls no handler after one that returned an error, returns Ok
\* exactly when every handler of the list returned Ok and otherwise the error
\* of the first failing handler; initialize and on_close call every handler
\* exactly once in the same order.
C28_SessionDispatch ==
    session_state # "none" =>
        /\ InListOrder
        /\ session_call.op = "on_message" =>
              /\ \A i \in FailingHandlers : i = Len(received)
              /\ SessionReturned =>
                    /\ session_ret = "Ok" <=>
                          /\ Len(received) = Len(HandlerOrder)
                          /\ FailingHandlers = {}
                    /\ session_ret # "Ok" =>
                          /\ FailingHandlers # {}
                          /\ \A i \in FailingHandlers :
                                /\ session_ret = outcomes[i]
                                /\ \A j \in 1..(i - 1) : outcomes[j] = "Ok"
        /\ (session_call.op \in {"initialize", "on_close"} /\ SessionReturned) =>
              Len(received) = Len(HandlerOrder)

\* on_message of a seednode session has returned the error of addr, and the
\* seednode handler was not called
C28_Witness ==
    /\ session_state = "seednode"
    /\ SessionReturned
    /\ session_call.op = "on_message"
    /\ Len(received) = 2
    /\ outcomes = <<"Ok", "WrongMagic">>
    /\ session_ret = "WrongMagic"

----------------------------------------------------------------------------
\* the row above a row: the hashes of the complete pairs in order, then the
\* hash of the last element with itself when the length is odd
ExpectedRow(h) ==
    LET n == Len(h)
        pairs == n \div 2
    IN  [j \in 1..(pairs + (n % 2)) |->
            IF j <= pairs
            THEN dhash256_concat(h[2 * j - 1], h[2 * j])
            ELSE dhash256_concat(h[n], h[n])]

RECURSIVE ExpectedRoot(_)
ExpectedRoot(h) == IF Len(h) = 1 THEN h[1] ELSE ExpectedRoot(ExpectedRow(h))

RootOfList(h, root) ==
    /\ root = ExpectedRoot(h)
    /\ Len(h) = 1 => root = h[1]
    /\ Len(h) >= 2 => root = merkle_root(ExpectedRow(h))
    /\ Len(h) = 2 => root = dhash256_concat(h[1], h[2])
    /\ Len(h) = 3 =>
          root = dhash256_concat(dhash256_concat(h[1], h[2]), dhash256_concat(h[3], h[3]))

\* C29: merkle_root of a list of one hash is that hash; of a list of two or
\* more hashes it is merkle_root of the row of the hashes of the complete
\* pairs in order, followed by the hash of the last element with itself when
\* the length is odd, so that [a, b] gives dhash256(a || b) and [a, b, c]
\* gives dhash256(dhash256(a || b) || dhash256(c || c)); the root of an
\* indexed block is this function of the hashes kept with its transactions,
\* in the order of the block.
C29_MerkleRoot ==
    /\ merkle_output # NoHash => RootOfList(merkle_input, merkle_output)
    /\ indexed_output # NoHash =>
          RootOfList([i \in 1..Len(indexed_block.transactions) |->
                         indexed_block.transactions[i].hash], indexed_output)

\* the root of three different hashes is computed, and the root of a block of
\* two transactions with different hashes
C29_Witness ==
    /\ merkle_input = <<<<"a">>, <<"b">>, <<"c">>>>
    /\ merkle_output = <<"(", "(", "a", "b", ")", "(", "c", "c", ")", ")">>
    /\ Len(indexed_block.transactions) = 2
    /\ indexed_block.transactions[1].hash = <<"b">>
    /\ indexed_block.transactions[2].hash = <<"a">>
    /\ indexed_output = <<"(", "b", "a", ")">>

----------------------------------------------------------------------------
\* the four bytes of a u32, the lowest first
IsLittleEndian(bytes, value) ==
    /\ Len(bytes) = 4
    /\ \A i \in 1..4 : bytes[i] \in 0..255
    /\ bytes[1] + 256 * bytes[2] = value[2]
    /\ bytes[3] + 256 * bytes[4] = value[1]

\* the magic values on the wire
WireMagic(magic) ==
    CASE magic = "Mainnet" -> <<249, 190, 180, 217>>
      [] magic = "Testnet" -> <<11, 17, 9, 7>>
      [] magic = "Regtest" -> <<250, 191, 181, 218>>

LaidOut(bytes, header) ==
    /\ Len(bytes) = 24
    /\ SubSeq(bytes, 1, 4) = WireMagic(header.magic)
    /\ SubSeq(bytes, 5, 16) = header.command
    /\ IsLittleEndian(SubSeq(bytes, 17, 20), header.len)
    /\ SubSeq(bytes, 21, 24) = header.checksum

Deserialized == mh_result.tag # "None"

OtherNetwork(data, expected) ==
    /\ Len(data) = 24
    /\ \E magic \in Magics \ {expected} : SubSeq(data, 1, 4) = WireMagic(magic)

\* C30: the serialization of a header is 24 bytes, magic(4) | command(12) |
\* len(4, little-endian) | checksum(4); deserializing it with the magic of the
\* header as the expected one gives Ok of the header; deserialize gives
\* Err(Deserialize) for data of any other length than 24 and Err(WrongMagic)
\* when the magic of the data is that of a known network other than the
\* expected one.
C30_HeaderRoundTrip ==
    /\ mh_stream # <<>> => LaidOut(mh_stream, mh_header)
    /\ Deserialized =>
          /\ (mh_stream # <<>> /\ mh_data = mh_stream /\ mh_expected = mh_header.magic)
                => mh_result = HeaderOk(mh_header)
          /\ \A header \in MessageHeaders :
                (LaidOut(mh_data, header) /\ mh_expected = header.magic)
                    => mh_result = HeaderOk(header)
          /\ Len(mh_data) # 24 => mh_result = HeaderErr("Deserialize")
          /\ OtherNetwork(mh_data, mh_expected) => mh_result = HeaderErr("WrongMagic")

\* the header of the test (Mainnet, addr, 0x1f, ed52399b) has been serialized
\* and read back
C30_Witness ==
    /\ mh_header = MessageHeader("Mainnet", CommandAddr, U32(0, 31), <<237, 82, 57, 155>>)
    /\ mh_stream = <<249, 190, 180, 217, 97, 100, 100, 114, 0, 0, 0, 0, 0, 0, 0, 0,
                     31, 0, 0, 0, 237, 82, 57, 155>>
    /\ mh_data = mh_stream
    /\ mh_expected = "Mainnet"
    /\ mh_result = HeaderOk(mh_header)

----------------------------------------------------------------------------
(* The order of the checks of verify, written down check by check.  A    *)
(* check is asked of the block on its own; the first one violated, in    *)
(* the order below, names the results verify may return.                  *)

\* the least member of a non-empty set of numbers
Least(S) == CHOOSE x \in S : \A y \in S : x <= y

\* the inputs of the transaction at position i that fail a check of the
\* per-transaction loop
StatelessFailing(i) == {k \in 1..Len(TxAt(i).inputs) : ~InputPasses(TxAt(i).inputs[k])}

\* the error of the per-transaction loop for input k of the transaction at i
StatelessErrorOf(i, k) ==
    LET inp == TxAt(i).inputs[k]
    IN  IF Unknown(inp)
        THEN ErrTransaction(i, TxErr("Inconclusive", inp.prev_hash, 0))
        ELSE IF inp.prev_index < 0 \/ inp.prev_index >= Len(ParentOutputs(inp))
        THEN ErrTransaction(i, TxErr("Input", "", k - 1))
        ELSE ErrTransaction(i, TxErr("Signature", "", k - 1))

\* what the per-transaction loop has against the transaction at position i:
\* its scripts cannot be counted (asked only when counting is among the
\* checks), the signature operations up to it pass the limit, or one of its
\* inputs fails; {} when it has nothing
StatelessViolation(i, counting) ==
    IF counting /\ TxAt(i).sigops < 0
    THEN {ErrTransaction(i, TxErr("SignatureMallformed", "", 0))}
    ELSE IF SigopsThrough(i) > MAX_BLOCK_SIGOPS
    THEN {Err("MaximumSigops")}
    ELSE IF StatelessFailing(i) # {}
    THEN {StatelessErrorOf(i, Least(StatelessFailing(i)))}
    ELSE {}

\* the inputs of the transaction at position i that fail in the stateful pass
StatefulFailing(i) == {k \in 1..Len(TxAt(i).inputs) : ~InputClean(TxAt(i).inputs[k])}

StatefulErrorOf(i, k) ==
    LET inp == TxAt(i).inputs[k]
    IN  IF Immature(inp)
        THEN ErrTransaction(i, TxErr("Maturity", "", 0))
        ELSE IF Referenced(inp) = <<>>
        THEN ErrTransaction(i, TxErr("UnknownReference", inp.prev_hash, 0))
        ELSE ErrTransaction(i, TxErr("Input", "", inp.prev_index))

\* what the stateful pass has against the transaction at position i
StatefulViolation(i) ==
    IF StatefulFailing(i) # {}
    THEN {StatefulErrorOf(i, Least(StatefulFailing(i)))}
    ELSE IF AmtLess(Claimed(i), Total(TxAt(i).outputs))
    THEN {ErrTransaction(i, TxErr("Overspend", "", 0))}
    ELSE {}

StatelessViolated(counting) == {i \in Positions : StatelessViolation(i, counting) # {}}

StatefulViolated == {i \in Positions : StatefulViolation(i) # {}}

\* the results verify may return when the checks are made in the order of
\* the statement and the first violated one decides; with counting, the
\* counting of the signature operations of a transaction is a check of its
\* own, made before the limit is looked at
InOrder(counting) ==
    IF block.transactions = <<>> THEN {Err("Empty")}
    ELSE IF ~(skip_pow \/ block.header.pow_ok) THEN {Err("Pow")}
    ELSE IF block.header.time > now + BLOCK_MAX_FUTURE THEN {Err("Timestamp")}
    ELSE IF ~RootMatches THEN {Err("MerkleRoot")}
    ELSE IF ~is_coinbase(block.transactions[1]) THEN {Err("Coinbase")}
    ELSE IF CoinbaseScriptLen < 2 \/ CoinbaseScriptLen > 100
    THEN {ErrN("CoinbaseSignatureLength", CoinbaseScriptLen)}
    ELSE IF counting /\ block.transactions[1].sigops < 0
    THEN {ErrTransaction(i, TxErr("SignatureMallformed", "", 0)) : i \in 0..1}
    ELSE IF StatelessViolated(counting) # {}
    THEN StatelessViolation(Least(StatelessViolated(counting)), counting)
    ELSE IF Location.kind = "None" THEN {Ok("Orphan")}
    ELSE IF StatefulViolated # {}
    THEN StatefulViolation(Least(StatefulViolated))
    ELSE IF AmtLess(ExpectedMax, CoinbaseSum)
    THEN {ErrCoinbaseOverspend(ExpectedMax, CoinbaseSum)}
    ELSE {Ok(Location.kind)}

\* the block violates two checks at least: a check of the header or of the
\* coinbase, and a check on a later transaction
SeveralViolated ==
    /\ Len(block.transactions) > 1
    /\ \/ ~(skip_pow \/ block.header.pow_ok)
       \/ block.header.time > now + BLOCK_MAX_FUTURE
       \/ ~RootMatches
       \/ CoinbaseScriptLen < 2 \/ CoinbaseScriptLen > 100
       \/ block.transactions[1].sigops < 0
       \/ \E i \in Positions : TxAt(i).sigops < 0
    /\ \E i \in Positions : StatelessFailing(i) # {}

\* C31 as stated: the checks are Empty, Pow, Timestamp, MerkleRoot, Coinbase,
\* CoinbaseSignatureLength, then for each transaction after the coinbase the
\* cumulative limit of signature operations and its inputs (parent lookup,
\* output range, script), then the location, then the stateful pass
\* (Maturity, UnknownReference, Input for each input, Overspend for each
\* transaction, CoinbaseOverspend at last), and the result is that of the
\* first violated check.
C31_CheckOrder_AsStated == Verified => result \in InOrder(FALSE)

\* C31: the order of the checks of verify is fixed as stated, with the
\* counting of the signature operations as a check of its own: of the
\* coinbase after CoinbaseSignatureLength, and of each later transaction
\* before the cumulative limit is looked at; a script that cannot be counted
\* gives Transaction(_, SignatureMallformed).  The result of verify is that
\* of the first violated check in this order, whatever later checks the
\* block violates too.
C31_CheckOrder == Verified => result \in InOrder(TRUE)

\* a block with a wrong merkle root and a transaction with an unknown parent
\* is returned with the error of the merkle root
C31_Witness ==
    /\ Verified
    /\ SeveralViolated
    /\ result = Err("MerkleRoot")
    /\ \E i \in Positions : \E k \in StatelessFailing(i) : Unknown(TxAt(i).inputs[k])

----------------------------------------------------------------------------
\* a call of merkle_root is made on a row strictly shorter than the row of
\* its caller
ShorterRow ==
    Len(merkle_frames') > Len(merkle_frames) /\ Len(merkle_frames) > 0 =>
        Len(merkle_frames'[Len(merkle_frames')]) < Len(merkle_frames[Len(merkle_frames)])

\* C32: merkle_root terminates for every list of hashes, the empty list
\* included: each call it makes of itself is on a strictly shorter row, and
\* no call runs out of the stack.
C32_MerkleRootTerminates == [](merkle_pc # "overflow") /\ [][ShorterRow]_vars

----------------------------------------------------------------------------
\* C33: whatever filter a peer loads (bytes of any length, none included,
\* any number of hash functions, none included, any tweak), every add and
\* every match_update_transaction after it completes: contains and insert
\* divide by no zero and reach for no bit outside the filter.
C33_FilterNeverFails == last.ret # "panic"

----------------------------------------------------------------------------
(* The relay filter: bits are only ever set.                               *)

\* the filter is answered without a panic
Answers(b) == ~Panics(b)

\* every bit of filter b is a bit of filter c, and the two have the same
\* length, number of hash functions and tweak
Within(b, c) ==
    /\ Len(c.filter) = Len(b.filter)
    /\ c.hash_functions_num = b.hash_functions_num
    /\ c.tweak = b.tweak
    /\ \A i \in 1..Len(b.filter) : b.filter[i] => c.filter[i]

\* a transaction the loaded filter lets through
Matches(bl, transaction) ==
    match_update_transaction(bl, filter_flags, transaction).ret = "true"

\* a step of add or match_update_transaction on a loaded filter
Monotone ==
    (op_count' # op_count /\ last'.op \in {"add", "match"} /\ bloom # <<>>) =>
        /\ bloom' # <<>>
        /\ filter_flags' = filter_flags
        /\ Within(bloom[1], bloom'[1])
        /\ Answers(bloom[1]) =>
               /\ \A data \in HashedData :
                      contains(bloom[1], data) => contains(bloom'[1], data)
               /\ \A transaction \in FilterTxs :
                      Matches(bloom, transaction) => Matches(bloom', transaction)

\* C34: between one load and the next load or clear, add and
\* match_update_transaction clear no bit of the loaded filter and leave its
\* length, hash_functions_num and tweak as they are; data the filter
\* contains and transactions that match stay contained and matching.
C34_Monotone == [][Monotone]_vars

\* an add or a match has set bits of a filter that had bits set before, and
\* a transaction that matched before it still matches
C34_Witness ==
    /\ last.op \in {"add", "match"}
    /\ before # <<>>
    /\ bloom # <<>>
    /\ bloom # before
    /\ \E i \in 1..Len(before[1].filter) : before[1].filter[i]
    /\ \E i \in 1..Len(before[1].filter) : ~bloom[1].filter[i]
    /\ \E transaction \in FilterTxs :
           Matches(before, transaction) /\ Matches(bloom, transaction)

----------------------------------------------------------------------------
(* The node: the indices of the peers.                                     *)

\* thread t is inside create_sync_session, its index allocated
Creating(t) == calls[t].pc \in {"on_peer_connected", "add_peer_connection"}

\* the indices handed out so far, stopped sessions included
HandedOut == {p \in 1..MaxPeers : sessions[p] # "none"}

\* the indices of the calls under way differ, are at least 1 and were
\* handed out once; the executor has no peer the client was not told of
IndicesUnique ==
    /\ \A t \in NodeThreads :
           Creating(t) =>
               /\ calls[t].peer >= 1
               /\ calls[t].peer <= node_peer_counter
               /\ sessions[calls[t].peer] = "creating"
    /\ \A t, u \in NodeThreads :
           (t # u /\ Creating(t) /\ Creating(u)) => calls[t].peer # calls[u].peer
    /\ executor_peers \subseteq client_peers

\* an allocation gives an index above every index handed out before, and
\* the executor is given the connection of a peer the client knows already
AllocationStep ==
    /\ node_peer_counter' >= node_peer_counter
    /\ \A t \in NodeThreads :
           (~Creating(t) /\ Creating(t)') =>
               /\ calls'[t].peer >= 1
               /\ \A p \in HandedOut : calls'[t].peer > p
    /\ \A p \in executor_peers' \ executor_peers : p \in client_peers

\* C35: every create_sync_session gets an index of its own, at least 1,
\* above all indices allocated before it, and never one that a stopped
\* session had; for each index the client is told of the peer before the
\* executor is given its connection.
C35_PeerIndices == []IndicesUnique /\ [][AllocationStep]_vars

\* two calls under way at once: the one that allocated later has told the
\* client already, the earlier one has not yet
C35_Witness ==
    \E t, u \in NodeThreads :
        /\ calls[t].pc = "add_peer_connection"
        /\ calls[u].pc = "on_peer_connected"
        /\ calls[t].peer > calls[u].peer
        /\ calls[u].peer >= 1

----------------------------------------------------------------------------
(* The registry of the connections: the map and its counter.               *)

\* the elements of a sequence
Elements(seq) == {seq[i] : i \in 1..Len(seq)}

\* the keys are below the counter, and the map holds what was stored and
\* not yet given back by remove or remove_all
MapAccounted ==
    /\ \A id \in DOMAIN channels : id < conn_peer_counter
    /\ count(channels) = Len(stored) - Len(removed)

\* a call of remove, of remove_all or of channels, and what the other calls
\* leave of a map that channels returned
RegistryStep ==
    /\ (conn_ops' # conn_ops /\ conn_last'.op = "remove") =>
           /\ conn_peer_counter' = conn_peer_counter
           /\ IF conn_last'.id \in DOMAIN channels
              THEN /\ conn_returned' = <<channels[conn_last'.id]>>
                   /\ DOMAIN channels' = DOMAIN channels \ {conn_last'.id}
              ELSE /\ conn_returned' = <<>>
                   /\ channels' = channels
                   /\ removed' = removed
    /\ (conn_ops' # conn_ops /\ conn_last'.op = "remove_all") =>
           /\ Elements(conn_returned') = {channels[id] : id \in DOMAIN channels}
           /\ Len(conn_returned') = count(channels)
           /\ count(channels') = 0
           /\ conn_peer_counter' = conn_peer_counter
    /\ IF conn_ops' # conn_ops /\ conn_last'.op = "channels"
       THEN snapshot' = channels /\ channels' = channels
       ELSE snapshot' = snapshot

\* C36: the keys of the map of the channels are below peer_counter; count()
\* is the number of completed calls of store less the number of channels
\* that remove and remove_all have returned; remove of an absent id returns
\* None and changes nothing; remove_all returns the channels present, leaves
\* the map empty and the counter as it is; a map returned by channels() is
\* not changed by a later store or remove.
C36_ConnectionsMap == []MapAccounted /\ [][RegistryStep]_vars

\* a map returned by channels(), a store after it and a remove of a channel
\* of that map: the map returned still holds what it held
C36_Witness ==
    /\ conn_last.op = "remove"
    /\ conn_returned # <<>>
    /\ conn_returned[1].id \in DOMAIN snapshot
    /\ \E id \in DOMAIN channels : id \notin DOMAIN snapshot
    /\ count(channels) = 1
    /\ Len(stored) = 2

----------------------------------------------------------------------------
(* The node: the peers of the client and of the executor.                  *)

\* C37: in every state, whatever the interleaving of create_sync_session,
\* stop_sync_session and the handlers, every peer the client holds as
\* connected has its connection with the executor, and a peer whose
\* stop_sync_session has returned is known to neither of the two.
C37_PeersAgree ==
    /\ client_peers \subseteq executor_peers
    /\ \A p \in 1..MaxPeers :
           sessions[p] = "closed" => p \notin client_peers \cup executor_peers

----------------------------------------------------------------------------
(* The node: the order of its two locks.                                   *)

\* the mutexes thread t holds
Held(t) == {m \in {"client", "executor"} : mutex_owner[m] = t}

\* thread t is at a lock() of mutex m
WaitsFor(t, m) ==
    /\ lock_calls[t].steps # <<>>
    /\ Head(lock_calls[t].steps) = Lock(m)

\* thread t is at a lock() that cannot return: it holds the mutex itself, or
\* the holder is at a lock() of a mutex that t holds
Stuck(t) ==
    \E m \in {"client", "executor"} :
        /\ WaitsFor(t, m)
        /\ \/ mutex_owner[m] = t
           \/ \E u \in NodeThreads \ {t} :
                  /\ mutex_owner[m] = u
                  /\ \E n \in Held(t) : WaitsFor(u, n)

\* both locks are held by one thread only inside on_peer_getheaders, the
\* client lock is not asked for by the holder of the executor lock, and no
\* thread is stuck
LocksNested ==
    \A t \in NodeThreads :
        /\ Held(t) = {"client", "executor"} => lock_calls[t].method = "on_peer_getheaders"
        /\ WaitsFor(t, "client") => "executor" \notin Held(t)
        /\ ~Stuck(t)

\* a lock taken under the other lock is the executor lock under the client
\* lock, taken by on_peer_getheaders
LockOrderStep ==
    \A t \in NodeThreads :
        \A m \in {"client", "executor"} :
            (mutex_owner'[m] = t /\ mutex_owner[m] # t /\ Held(t) # {}) =>
                /\ m = "executor"
                /\ lock_calls[t].method = "on_peer_getheaders"

\* C38: no method of LocalNode takes the client lock while it holds the
\* executor lock; the only nested acquisition is client then executor, in
\* on_peer_getheaders; every other method holds at most one of the two at a
\* time; threads calling the methods at once never wait for each other in
\* a circle.
C38_LockOrder == []LocksNested /\ [][LockOrderStep]_vars

\* on_peer_getheaders holds both locks while the other thread, inside
\* stop_sync_session, waits for the client lock with the executor lock given
\* back
C38_Witness ==
    \E t, u \in NodeThreads :
        /\ Held(t) = {"client", "executor"}
        /\ lock_calls[u].method = "stop_sync_session"
        /\ WaitsFor(u, "client")
        /\ Held(u) = {}

----------------------------------------------------------------------------
(* The verifier: the sums of the stateful pass.                            *)

\* the amount is a value of a u64
InU64(x) == AmtLess(x, TwoTo64)

\* the stateful pass gets through the inputs of the transaction at position i
InputsDone(i) == Reached(i, Len(TxAt(i).inputs) + 1)

\* C39: for every block that reaches the stateful pass, total_claimed,
\* total_unspent and expected_max stay within 2^64 - 1, total_claimed -
\* total_spends is taken of no total_claimed below total_spends, and
\* Overspend and CoinbaseOverspend are returned exactly when the sums
\* without wrapping say so.
C39_FeesExact ==
    (Verified /\ StatelessPass /\ Located) =>
        /\ \A i \in Positions :
               InputsDone(i) =>
                   /\ InU64(Claimed(i))
                   /\ IsTxError(i, "Overspend") <=>
                          AmtLess(Claimed(i), Total(TxAt(i).outputs))
        /\ AllTransactionsPass =>
               /\ InU64(FeesThrough(Len(block.transactions) - 1))
               /\ InU64(ExpectedMax)
               /\ (result.kind = "CoinbaseOverspend") <=> AmtLess(ExpectedMax, CoinbaseSum)

----------------------------------------------------------------------------
(* The verifier: continue_verify against verify.                           *)

Continued == pc = "continued"

\* the positions (0-based) continue_verify is to look at
ContinuedPositions == (verify_state - 1)..(Len(block.transactions) - 1)

\* the positions among them whose transaction fails verify_transaction
ContinuedFailing ==
    {i \in ContinuedPositions :
        verify_transaction(store, skip_sig, block, TxAt(i)) # TxOk}

\* C40: for state >= 1 continue_verify checks the transactions from block
\* position state - 1 on and reports the first that fails as
\* Transaction(i, e), i its position in the block and e the error verify
\* gives for it; when all pass it returns Ok(Orphan) exactly when the parent
\* is not in the store, and Main or Side as verify classifies the block
\* otherwise; state = 0 brings no underflow.
C40_ContinueVerify ==
    Continued =>
        /\ result # Panicked
        /\ verify_state >= 1 =>
               IF ContinuedFailing # {}
               THEN result =
                        ErrTransaction(Least(ContinuedFailing),
                                       verify_transaction(store, skip_sig, block,
                                                          TxAt(Least(ContinuedFailing))))
               ELSE IF ~store_block_known(store, block.header.previous_header_hash)
               THEN result = Ok("Orphan")
               ELSE result = Ok(Location.kind)

====
